---- MODULE Spec2Model ----
(***************************************************************************)
(* Model of the LAS batch processing engine: LASProcessor                  *)
(* (src/processor.py), PythonLASProcessor                                  *)
(* (src/PythonOnly/processor_python_only.py) and the thread planners of    *)
(* src/system_utils.py.                                                    *)
(*                                                                         *)
(* Spec      the run of one process_files call on a worker pool, with      *)
(*           cancel_processing called from another thread at any time.     *)
(*           The progress callback is absent or returns normally.          *)
(* SpecAgg   _calculate_aggregates applied to arbitrary result lists.      *)
(* SpecPlan  calculate_optimal_threads / calculate_optimal_threads_smart   *)
(*           applied to arbitrary file sizes and available RAM.            *)
(* SpecProgress  the run of Spec with a progress callback that records     *)
(*           the calls it receives and returns normally.                   *)
(* SpecLive  the run of Spec under the fairness the scheduling gives.      *)
(* SpecCrs   _extract_crs_info and the unit detection of                   *)
(*           _parse_lasinfo_output applied to arbitrary metadata records.  *)
(* SpecPoly  _polygon_area applied to arbitrary vertex sequences.          *)
(* SpecTask  one _process_single_file call: header, density and footprint  *)
(*           stages on arbitrary small point clouds, with failures.        *)
(* SpecCallback  the run of Spec with a progress callback that can raise.  *)
(* SpecBatches   several process_files calls on one engine instance.       *)
(***************************************************************************)
EXTENDS Integers, Sequences, FiniteSets, TLC

VARIABLES
    engine,        \* "LAS" (LASProcessor) or "Python" (PythonLASProcessor)
    HAS_LASPY,     \* module flag: the laspy import succeeded
    las_files,     \* the submitted list of paths
    kind,          \* per position: what the file system holds for that file
    max_workers,   \* self.max_workers
    cancel_event,  \* self.cancel_event (threading.Event)
    pc,            \* position of the thread running process_files
    status,        \* per position: state of the future of that file's task
    results,       \* the results list of process_files
    completed,     \* the completed counter of process_files
    aggregate,     \* the aggregate returned (NoAggregate before the return)
    cur,           \* the future the as_completed loop is handling (0: none)
    cancelIdx,     \* index of the cancel loop of PythonLASProcessor
    snap,          \* history: what had happened at the first cancel call of the run
    obs,           \* history: what had happened when the loop saw the flag set
    calls,         \* history: number of cancel_processing calls (saturating)
    aggIn,         \* SpecAgg: the list handed to _calculate_aggregates
    aggOut,        \* SpecAgg: its return value
    planIn,        \* SpecPlan: the planner inputs
    planOut,       \* SpecPlan: the planner outputs
    use_detailed_acreage,  \* SpecProgress: self.use_detailed_acreage
    stage,         \* SpecProgress: per position, sub_progress calls of the running task
    last_call,     \* SpecProgress: the arguments of the latest progress_callback call
    main_calls,    \* SpecProgress: number of main progress calls received
    crsIn,         \* SpecCrs: the metadata records and header bounds of a file
    crsOut,        \* SpecCrs: what the CRS resolution returned
    polyIn,        \* SpecPoly: the vertex sequence handed to _polygon_area
    polyOut,       \* SpecPoly: its return value
    taskIn,        \* SpecTask: the engine settings, the file and the fault of one _process_single_file call
    taskOut,       \* SpecTask: what the call gave
    callback,      \* SpecCallback: the progress callback passed to process_files
    cancel_requested, \* SpecCallback: gui.cancel_requested
    counted,       \* SpecCallback: per position, how often the file advanced completed
    unwound,       \* SpecCallback: history: what was pending when the callback raised out of the loop
    batch,         \* SpecBatches: number of process_files calls begun on the engine instance
    cancelled_in_run \* SpecBatches: history: cancel_processing was called since the current call began

vars == <<engine, HAS_LASPY, las_files, kind, max_workers, cancel_event, pc,
          status, results, completed, aggregate, cur, cancelIdx, snap, obs, calls,
          aggIn, aggOut, planIn, planOut,
          use_detailed_acreage, stage, last_call, main_calls, crsIn, crsOut,
          polyIn, polyOut,
          taskIn, taskOut,
          callback, cancel_requested, counted, unwound,
          batch, cancelled_in_run>>

engineVars == <<engine, HAS_LASPY, las_files, kind, max_workers, cancel_event, pc,
                status, results, completed, aggregate, cur, cancelIdx, snap, obs, calls>>
aggVars == <<aggIn, aggOut>>
planVars == <<planIn, planOut>>
progressVars == <<use_detailed_acreage, stage, last_call, main_calls>>
crsVars == <<crsIn, crsOut>>
polyVars == <<polyIn, polyOut>>
taskVars == <<taskIn, taskOut>>
callbackVars == <<callback, cancel_requested, counted, unwound>>
batchVars == <<batch, cancelled_in_run>>

----------------------------------------------------------------------------
(* Bounds of the model *)

MaxWorkers == 2
MaxCalls == 2
MaxResults == 3
MaxPlanFiles == 2
MaxRamGb == 16

----------------------------------------------------------------------------
(* Paths.  A path is a directory and a file name; path.name is what the    *)
(* records carry as filename.  Names are numbered in their sort order.     *)

Dirs == {"a", "b"}
FileNames == {1, 2}
Paths == {[dir |-> "a", name |-> 1], [dir |-> "b", name |-> 1], [dir |-> "a", name |-> 2]}

\* What the reader finds in a file: fixed per path, all positive.
HeaderPoints(p) == 10 * p.name + (IF p.dir = "a" THEN 1 ELSE 2)
HeaderDensity(p) == 2 * p.name + (IF p.dir = "a" THEN 0 ELSE 1)
StatSizeMb(p) == 100 * p.name + (IF p.dir = "a" THEN 10 ELSE 20)
HeaderMinX(p) == 5 * p.name - (IF p.dir = "a" THEN 7 ELSE 0)
HeaderMaxX(p) == HeaderMinX(p) + 3 * p.name
HeaderMinY(p) == (IF p.dir = "a" THEN 4 ELSE -6) - p.name
HeaderMaxY(p) == HeaderMinY(p) + (IF p.dir = "a" THEN 20 ELSE 2)
HeaderMinZ(p) == 7 - 4 * p.name
HeaderMaxZ(p) == HeaderMinZ(p) + (IF p.dir = "a" THEN 1 ELSE 9)

\* kind of a file:
\*   "ok"      readable, within the size cap, the task returns a valid record
\*   "err"     readable, within the cap, the task catches an exception
\*   "raise"   within the cap at validation, gone when the task stats it
\*   "over"    larger than the 20 GB cap
\*   "missing" its size cannot be read at validation
Kinds == {"ok", "err", "raise", "over", "missing"}

----------------------------------------------------------------------------
(* LASFileInfo *)

LASFileInfo(p, err) ==
    [filename |-> p.name, filepath |-> p, point_count |-> 0, point_density |-> 0,
     min_x |-> 0, max_x |-> 0, min_y |-> 0, max_y |-> 0, min_z |-> 0, max_z |-> 0,
     file_size_mb |-> 0, error |-> err]

\* The record _process_single_file returns when every stage succeeded.
FileInfoValid(p) ==
    [LASFileInfo(p, "None") EXCEPT !.point_count = HeaderPoints(p),
                                   !.point_density = HeaderDensity(p),
                                   !.min_x = HeaderMinX(p),
                                   !.max_x = HeaderMaxX(p),
                                   !.min_y = HeaderMinY(p),
                                   !.max_y = HeaderMaxY(p),
                                   !.min_z = HeaderMinZ(p),
                                   !.max_z = HeaderMaxZ(p),
                                   !.file_size_mb = StatSizeMb(p)]

\* The record _process_single_file returns when a stage raised inside its
\* try block: the fields filled before the exception stay, error is set.
FileInfoCaught(p) ==
    [FileInfoValid(p) EXCEPT !.error = "caught"]

\* future.result(): the record returned, or "raised" when the task raised
\* (filepath.stat() is outside the try block of _process_single_file).
TaskRaises(k) == k \in {"raise", "missing"}
TaskResult(p, k) ==
    IF k = "err" THEN FileInfoCaught(p) ELSE FileInfoValid(p)

----------------------------------------------------------------------------
(* Sequence helpers *)

\* sum(f(r) for r in rs), one operator per summed field
RECURSIVE SumPoints(_)
SumPoints(rs) ==
    IF rs = <<>> THEN 0 ELSE Head(rs).point_count + SumPoints(Tail(rs))

RECURSIVE SumDensity(_)
SumDensity(rs) ==
    IF rs = <<>> THEN 0 ELSE Head(rs).point_density + SumDensity(Tail(rs))

RECURSIVE SumSize(_)
SumSize(rs) ==
    IF rs = <<>> THEN 0 ELSE Head(rs).file_size_mb + SumSize(Tail(rs))

\* Mutant of ValidResults: every record counts as valid.
ValidResultsAll(rs) == rs

\* [r for r in results if r.error is None]
RECURSIVE ValidResults(_)
ValidResults(rs) ==
    IF rs = <<>> THEN <<>>
    ELSE IF Head(rs).error = "None" THEN <<Head(rs)>> \o ValidResults(Tail(rs))
         ELSE ValidResults(Tail(rs))

MinOf(S) == CHOOSE x \in S : \A y \in S : x <= y
MaxOf(S) == CHOOSE x \in S : \A y \in S : x >= y
Range(s) == {s[i] : i \in 1..Len(s)}

\* list.sort(key=lambda x: x.filename): stable, ascending by filename.
InsertByFilename(s, r) ==
    LET k == Cardinality({i \in 1..Len(s) : s[i].filename <= r.filename})
    IN  SubSeq(s, 1, k) \o <<r>> \o SubSeq(s, k + 1, Len(s))

\* Mutant of SortByFilename: the list is returned in completion order.
SortSkipped(s) == s

RECURSIVE SortByFilename(_)
SortByFilename(s) ==
    IF s = <<>> THEN <<>>
    ELSE InsertByFilename(SortByFilename(SubSeq(s, 1, Len(s) - 1)), s[Len(s)])

----------------------------------------------------------------------------
(* _calculate_aggregates *)

\* avg_point_density is the quotient sum / count, kept exact as the pair
\* <<sum, count>>; 0.0 is <<0, 1>>.  A pair with count 0 stands for the
\* ZeroDivisionError the division raises.
ZeroBounds ==
    [overall_min_x |-> 0, overall_max_x |-> 0, overall_min_y |-> 0,
     overall_max_y |-> 0, overall_min_z |-> 0, overall_max_z |-> 0]

\* The try block of the bounds: min() and max() over valid_results; on an
\* empty sequence they raise ValueError and the handler sets all six to 0.0.
OverallBounds(valid_results) ==
    IF valid_results = <<>> THEN ZeroBounds
    ELSE [overall_min_x |-> MinOf({r.min_x : r \in Range(valid_results)}),
          overall_max_x |-> MaxOf({r.max_x : r \in Range(valid_results)}),
          overall_min_y |-> MinOf({r.min_y : r \in Range(valid_results)}),
          overall_max_y |-> MaxOf({r.max_y : r \in Range(valid_results)}),
          overall_min_z |-> MinOf({r.min_z : r \in Range(valid_results)}),
          overall_max_z |-> MaxOf({r.max_z : r \in Range(valid_results)})]

\* Mutant of CalculateAggregates: no early return for an empty
\* valid_results and an unguarded division.
CalculateAggregatesUnguarded(rs) ==
    LET valid_results == ValidResults(rs)
    IN  [total_files |-> Len(rs),
         valid_files |-> Len(valid_results),
         failed_files |-> Len(rs) - Len(valid_results),
         total_points |-> SumPoints(valid_results),
         avg_point_density |-> <<SumDensity(valid_results), Len(valid_results)>>,
         total_file_size_mb |-> SumSize(rs)] @@ OverallBounds(valid_results)

CalculateAggregates(rs) ==
    LET valid_results == ValidResults(rs)
    IN  IF valid_results = <<>>
        THEN [total_files |-> Len(rs), valid_files |-> 0, failed_files |-> Len(rs),
              total_points |-> 0, avg_point_density |-> <<0, 1>>,
              total_file_size_mb |-> 0] @@ ZeroBounds
        ELSE [total_files |-> Len(rs),
              valid_files |-> Len(valid_results),
              failed_files |-> Len(rs) - Len(valid_results),
              total_points |-> SumPoints(valid_results),
              avg_point_density |->
                  IF valid_results # <<>>
                  THEN <<SumDensity(valid_results), Len(valid_results)>>
                  ELSE <<0, 1>>,
              total_file_size_mb |-> SumSize(rs)] @@ OverallBounds(valid_results)

\* The call raised: the only operation of _calculate_aggregates that can
\* raise past its handlers on LASFileInfo records is the division.
AggregateRaised(agg) == agg.avg_point_density[2] = 0

----------------------------------------------------------------------------
(* The worker pool (concurrent.futures.ThreadPoolExecutor).                *)
(* status[i] is the state of the future of las_files[i]:                   *)
(*   "new"        not submitted                                            *)
(*   "pending"    submitted, in the work queue                             *)
(*   "running"    taken by a worker thread                                 *)
(*   "finished"   the task returned or raised; not yet yielded             *)
(*   "collected"  yielded by as_completed and handled by the loop          *)
(*   "cancelled"  cancelled while pending                                  *)

N == Len(las_files)
Pos == 1..N
WithStatus(st) == {i \in Pos : status[i] = st}
\* The worker threads take work: from the submission until the with block
\* is left, also while an exception unwinds through its exit.
PoolAlive == pc \in {"wait", "got", "cancelling", "exit", "unwind"}

\* The sequences without repetition over S of length at most n.
InjectiveSeqs(S, n) ==
    UNION {{s \in [1..k -> S] : \A i, j \in 1..k : i # j => s[i] # s[j]} : k \in 0..n}

\* Mutant of FailsValidation: the size test never fails.
FailsValidationNever(k) == FALSE

\* validate_file_size(las_file, max_size_gb=20.0): (False, message) when the
\* file is larger than the cap and also when os.path.getsize raises.
FailsValidation(k) == k \in {"over", "missing"}

\* Mutant of WorkerStart: a task starts whether or not a worker is free.
WorkerStartUnbounded(i) ==
    /\ PoolAlive
    /\ status[i] = "pending"
    /\ \A j \in 1..(i - 1) : status[j] # "pending"
    /\ status' = [status EXCEPT ![i] = "running"]
    /\ UNCHANGED <<engine, HAS_LASPY, las_files, kind, max_workers, cancel_event, pc,
                   results, completed, aggregate, cur, cancelIdx, snap, obs, calls>>

\* A worker thread takes the next work item of the FIFO queue.
WorkerStart(i) ==
    /\ PoolAlive
    /\ status[i] = "pending"
    /\ \A j \in 1..(i - 1) : status[j] # "pending"
    /\ Cardinality(WithStatus("running")) < max_workers
    /\ status' = [status EXCEPT ![i] = "running"]
    /\ UNCHANGED <<engine, HAS_LASPY, las_files, kind, max_workers, cancel_event, pc,
                   results, completed, aggregate, cur, cancelIdx, snap, obs, calls>>

\* _process_single_file returns or raises; the future becomes done.
WorkerFinish(i) ==
    /\ status[i] = "running"
    /\ status' = [status EXCEPT ![i] = "finished"]
    /\ UNCHANGED <<engine, HAS_LASPY, las_files, kind, max_workers, cancel_event, pc,
                   results, completed, aggregate, cur, cancelIdx, snap, obs, calls>>

----------------------------------------------------------------------------
(* process_files *)

ErrorResults(msg) == [i \in Pos |-> LASFileInfo(las_files[i], msg)]

\* Entry of process_files up to the submission of the tasks.
\*   LASProcessor: clears the flag, validates every file, fails the batch
\*     when a file fails validation, else submits one task per file.
\*   PythonLASProcessor: fails the batch when laspy is missing, else
\*     submits one task per file; the flag is left as it is.
ProcessFiles ==
    /\ pc = "idle"
    /\ cancel_event' = (IF engine = "LAS" THEN FALSE ELSE cancel_event)
    /\ IF engine = "LAS" /\ \E i \in Pos : FailsValidation(kind[i])
       THEN /\ results' = ErrorResults("File exceeds 20GB limit")
            /\ aggregate' = CalculateAggregates(results')
            /\ pc' = "done"
            /\ UNCHANGED status
       ELSE IF engine = "Python" /\ ~HAS_LASPY
       THEN /\ results' = ErrorResults("laspy library not available")
            /\ aggregate' = CalculateAggregates(results')
            /\ pc' = "done"
            /\ UNCHANGED status
       ELSE /\ results' = <<>>
            /\ status' = [i \in Pos |-> "pending"]
            /\ pc' = "wait"
            /\ UNCHANGED aggregate
    /\ UNCHANGED <<engine, HAS_LASPY, las_files, kind, max_workers, completed,
                   cur, cancelIdx, snap, obs, calls>>

\* as_completed yields a done future and the loop tests the flag: set, the
\* loop goes to its cancel step; clear, it goes on to handle the future.
\* Any done future not yet yielded may come next: as_completed yields the
\* futures that were done when it was entered in no fixed order and the
\* others in the order they finish, so this allows every order it can
\* produce (and, with futures that finish while the loop handles another
\* one, some it cannot).
Yield(i) ==
    /\ pc = "wait"
    /\ status[i] = "finished"
    /\ IF cancel_event
       THEN /\ pc' = "cancelling"
            /\ cancelIdx' = 1
            /\ obs' = [pending |-> WithStatus("pending"),
                       running |-> WithStatus("running"),
                       collected |-> Len(results)]
            /\ UNCHANGED cur
       ELSE /\ pc' = "got"
            /\ cur' = i
            /\ UNCHANGED <<cancelIdx, obs>>
    /\ UNCHANGED <<engine, HAS_LASPY, las_files, kind, max_workers, cancel_event,
                   status, results, completed, aggregate, snap, calls>>

\* The record the loop appends for the future it handles: the task's record,
\* or, when future.result() raised, a fresh record carrying the error.
CollectedRecord(i) ==
    IF TaskRaises(kind[i])
    THEN LASFileInfo(las_files[i], "raised")
    ELSE TaskResult(las_files[i], kind[i])

\* Mutant of Collect: a task that raised ends the collection, the futures
\* still queued are cancelled.
CollectAbortsOnRaise ==
    /\ pc = "got"
    /\ results' = Append(results, CollectedRecord(cur))
    /\ completed' = completed + 1
    /\ status' = [status EXCEPT ![cur] = "collected"]
    /\ cur' = 0
    /\ pc' = IF TaskRaises(kind[cur]) THEN "cancelling" ELSE "wait"
    /\ cancelIdx' = 1
    /\ UNCHANGED <<engine, HAS_LASPY, las_files, kind, max_workers, cancel_event,
                   aggregate, snap, obs, calls>>

\* Mutant of Collect: a task that raised is counted but leaves no record.
CollectDropsRaised ==
    /\ pc = "got"
    /\ results' = IF TaskRaises(kind[cur]) THEN results
                  ELSE Append(results, CollectedRecord(cur))
    /\ completed' = completed + 1
    /\ status' = [status EXCEPT ![cur] = "collected"]
    /\ cur' = 0
    /\ pc' = "wait"
    /\ UNCHANGED <<engine, HAS_LASPY, las_files, kind, max_workers, cancel_event,
                   aggregate, cancelIdx, snap, obs, calls>>

\* The body of the loop after the flag test: append the record, count it,
\* notify main progress (the callback returns normally).
Collect ==
    /\ pc = "got"
    /\ results' = Append(results, CollectedRecord(cur))
    /\ completed' = completed + 1
    /\ status' = [status EXCEPT ![cur] = "collected"]
    /\ cur' = 0
    /\ pc' = "wait"
    /\ UNCHANGED <<engine, HAS_LASPY, las_files, kind, max_workers, cancel_event,
                   aggregate, cancelIdx, snap, obs, calls>>

\* as_completed is exhausted: every future was yielded.
LoopEnd ==
    /\ pc = "wait"
    /\ \A i \in Pos : status[i] = "collected"
    /\ pc' = "exit"
    /\ UNCHANGED <<engine, HAS_LASPY, las_files, kind, max_workers, cancel_event,
                   status, results, completed, aggregate, cur, cancelIdx, snap, obs, calls>>

\* Mutant of CancelFutures: the loop breaks without cancelling any future.
CancelFuturesBreakOnly ==
    /\ pc = "cancelling"
    /\ pc' = "exit"
    /\ UNCHANGED <<engine, HAS_LASPY, las_files, kind, max_workers, cancel_event,
                   status, results, completed, aggregate, cur, cancelIdx, snap, obs, calls>>

\* The cancel step, one future at a time, then break.
\*   LASProcessor: executor.shutdown(wait=False, cancel_futures=True) drains
\*     the work queue and cancels each future it takes out.
\*   PythonLASProcessor: for f in future_to_path: f.cancel(), which cancels
\*     the futures that are still pending.
CancelFutures ==
    /\ pc = "cancelling"
    /\ IF engine = "LAS"
       THEN IF WithStatus("pending") # {}
            THEN /\ status' = [status EXCEPT ![MinOf(WithStatus("pending"))] = "cancelled"]
                 /\ UNCHANGED <<pc, cancelIdx>>
            ELSE /\ pc' = "exit"
                 /\ UNCHANGED <<status, cancelIdx>>
       ELSE IF cancelIdx <= N
            THEN /\ status' = [status EXCEPT ![cancelIdx] =
                                  IF @ = "pending" THEN "cancelled" ELSE @]
                 /\ cancelIdx' = cancelIdx + 1
                 /\ UNCHANGED pc
            ELSE /\ pc' = "exit"
                 /\ UNCHANGED <<status, cancelIdx>>
    /\ UNCHANGED <<engine, HAS_LASPY, las_files, kind, max_workers, cancel_event,
                   results, completed, aggregate, cur, snap, obs, calls>>

\* Mutant of ExitPool: the join also waits for the cancelled futures.
ExitPoolJoinsCancelled ==
    /\ pc = "exit"
    /\ WithStatus("pending") = {}
    /\ WithStatus("running") = {}
    /\ WithStatus("cancelled") = {}
    /\ results' = SortByFilename(results)
    /\ aggregate' = CalculateAggregates(results')
    /\ pc' = "done"
    /\ UNCHANGED <<engine, HAS_LASPY, las_files, kind, max_workers, cancel_event,
                   status, completed, cur, cancelIdx, snap, obs, calls>>

\* Mutant of ExitPool: a cancelled batch returns no results.
ExitPoolEmptyOnCancel ==
    /\ pc = "exit"
    /\ WithStatus("pending") = {}
    /\ WithStatus("running") = {}
    /\ results' = IF cancel_event THEN <<>> ELSE SortByFilename(results)
    /\ aggregate' = CalculateAggregates(results')
    /\ pc' = "done"
    /\ UNCHANGED <<engine, HAS_LASPY, las_files, kind, max_workers, cancel_event,
                   status, completed, cur, cancelIdx, snap, obs, calls>>

\* The end of the with block joins the worker threads, which run until the
\* queue is empty; then the results are sorted by filename, the aggregate is
\* computed and both are returned.
ExitPool ==
    /\ pc = "exit"
    /\ WithStatus("pending") = {}
    /\ WithStatus("running") = {}
    /\ results' = SortByFilename(results)
    /\ aggregate' = CalculateAggregates(results')
    /\ pc' = "done"
    /\ UNCHANGED <<engine, HAS_LASPY, las_files, kind, max_workers, cancel_event,
                   status, completed, cur, cancelIdx, snap, obs, calls>>

\* Mutant of CancelProcessing: the call toggles the event.
CancelProcessingToggles ==
    /\ cancel_event' = ~cancel_event
    /\ UNCHANGED <<engine, HAS_LASPY, las_files, kind, max_workers, pc, status,
                   results, completed, aggregate, cur, cancelIdx, obs>>

\* cancel_processing, called from any thread at any time: sets the event.
CancelProcessing ==
    /\ cancel_event' = TRUE
    /\ UNCHANGED <<engine, HAS_LASPY, las_files, kind, max_workers, pc, status,
                   results, completed, aggregate, cur, cancelIdx, obs>>

\* History of the cancel calls: the number of calls, and at the first call
\* made while the pool is alive, which results were collected and which
\* tasks had finished.
CancelCall ==
    /\ calls < MaxCalls
    /\ CancelProcessing
    /\ calls' = calls + 1
    /\ snap' = IF snap.taken \/ ~PoolAlive THEN snap
               ELSE [taken |-> TRUE,
                     collected |-> WithStatus("collected"),
                     finished |-> WithStatus("finished") \cup WithStatus("collected")]

\* The value of aggregate before process_files returns.
NoAggregate == [returned |-> FALSE]

NoSnap == [taken |-> FALSE, collected |-> {}, finished |-> {}]
NoObs == [pending |-> {}, running |-> {}, collected |-> -1]

NoAgg == [called |-> FALSE]
NoPlan == [called |-> FALSE, raised |-> FALSE, value |-> 0]

InitAggIdle ==
    /\ aggIn = <<>>
    /\ aggOut = NoAgg

InitPlanIdle ==
    /\ planIn = [file_paths |-> <<>>, total_ram_needed_gb |-> 0,
                 available_ram_gb |-> 0, use_convex_hull |-> FALSE]
    /\ planOut = [batch |-> NoPlan, smart |-> NoPlan]

NoCall == [shape |-> "none", completed |-> 0, total |-> 0, filename |-> 0, message |-> 0]

\* No progress callback is passed (progress_callback=None).
InitProgressIdle ==
    /\ use_detailed_acreage = FALSE
    /\ stage = <<>>
    /\ last_call = NoCall
    /\ main_calls = 0

NoHeader == [min_x |-> 0, max_x |-> 0, min_y |-> 0, max_y |-> 0]
NoLabel == [src |-> "none", rec |-> 0, name |-> ""]
NoCrs == [called |-> FALSE, crs_info |-> NoLabel, crs_units |-> "unknown"]

InitCrsIdle ==
    /\ crsIn = [vlrs |-> <<>>, header |-> NoHeader]
    /\ crsOut = [python |-> NoCrs, lasinfo |-> NoCrs]

\* A float that is a whole number of halves: n / 2.0.
Half(n) == <<n, 2>>
NoArea == [returned |-> FALSE, area |-> Half(0)]

InitPolyIdle ==
    /\ polyIn = <<>>
    /\ polyOut = NoArea

\* The float fields of a record, kept as the terms they were computed from.
\* point_density: pts / (area2 / 2 * square metres per square unit);
\* acreage_detailed: area2 / 2 * acres per square unit.  0.0 is ZeroDensity,
\* ZeroAcres.
ZeroDensity == [pts |-> 0, area2 |-> 0, per |-> "none"]
ZeroAcres == [area2 |-> 0, per |-> "none"]

\* LASFileInfo(filename=..., filepath=..., file_size_mb=...): the defaults of
\* the dataclass, with the fields the density and footprint stages use.
NewFileInfo ==
    [point_count |-> 0, point_density |-> ZeroDensity, acreage_detailed |-> ZeroAcres,
     min_x |-> 0, max_x |-> 0, min_y |-> 0, max_y |-> 0,
     crs_units |-> "unknown", error |-> "None"]

NoTask == [returned |-> FALSE, raised |-> FALSE, file_info |-> NewFileInfo]

InitTaskIdle ==
    /\ taskIn = [engine |-> "LAS", use_detailed_acreage |-> FALSE,
                 extract_classifications |-> TRUE, cloud |-> {},
                 crs_units |-> "unknown", fault |-> "none"]
    /\ taskOut = NoTask

NoUnwind == [taken |-> FALSE, pending |-> {}, by |-> "none"]

InitCallbackIdle ==
    /\ callback = "none"
    /\ cancel_requested = FALSE
    /\ counted = <<>>
    /\ unwound = NoUnwind

InitBatchIdle ==
    /\ batch = 0
    /\ cancelled_in_run = FALSE

InitEngineIdle ==
    /\ engine = "LAS"
    /\ HAS_LASPY = TRUE
    /\ las_files = <<>>
    /\ kind = <<>>
    /\ max_workers = 1
    /\ cancel_event = FALSE
    /\ pc = "idle"
    /\ status = <<>>
    /\ results = <<>>
    /\ completed = 0
    /\ aggregate = NoAggregate
    /\ cur = 0
    /\ cancelIdx = 0
    /\ snap = NoSnap
    /\ obs = NoObs
    /\ calls = 0

Init ==
    /\ engine \in {"LAS", "Python"}
    /\ HAS_LASPY \in (IF engine = "LAS" THEN {TRUE} ELSE BOOLEAN)
    /\ las_files \in InjectiveSeqs(Paths, Cardinality(Paths))
    /\ kind \in [1..Len(las_files) -> IF engine = "LAS" THEN Kinds ELSE {"ok", "err", "raise"}]
    /\ max_workers \in 1..MaxWorkers
    /\ cancel_event = FALSE
    /\ pc = "idle"
    /\ status = [i \in 1..Len(las_files) |-> "new"]
    /\ results = <<>>
    /\ completed = 0
    /\ aggregate = NoAggregate
    /\ cur = 0
    /\ cancelIdx = 0
    /\ snap = NoSnap
    /\ obs = NoObs
    /\ calls = 0
    /\ InitAggIdle
    /\ InitPlanIdle
    /\ InitProgressIdle
    /\ InitCrsIdle
    /\ InitPolyIdle
    /\ InitTaskIdle
    /\ InitCallbackIdle
    /\ InitBatchIdle

Next ==
    \/ ProcessFiles /\ UNCHANGED <<aggVars, planVars, progressVars, crsVars, polyVars, taskVars, callbackVars, batchVars>>
    \/ \E i \in Pos : WorkerStart(i) /\ UNCHANGED <<aggVars, planVars, progressVars, crsVars, polyVars, taskVars, callbackVars, batchVars>>
    \/ \E i \in Pos : WorkerFinish(i) /\ UNCHANGED <<aggVars, planVars, progressVars, crsVars, polyVars, taskVars, callbackVars, batchVars>>
    \/ \E i \in Pos : Yield(i) /\ UNCHANGED <<aggVars, planVars, progressVars, crsVars, polyVars, taskVars, callbackVars, batchVars>>
    \/ Collect /\ UNCHANGED <<aggVars, planVars, progressVars, crsVars, polyVars, taskVars, callbackVars, batchVars>>
    \/ LoopEnd /\ UNCHANGED <<aggVars, planVars, progressVars, crsVars, polyVars, taskVars, callbackVars, batchVars>>
    \/ CancelFutures /\ UNCHANGED <<aggVars, planVars, progressVars, crsVars, polyVars, taskVars, callbackVars, batchVars>>
    \/ ExitPool /\ UNCHANGED <<aggVars, planVars, progressVars, crsVars, polyVars, taskVars, callbackVars, batchVars>>
    \/ CancelCall /\ UNCHANGED <<aggVars, planVars, progressVars, crsVars, polyVars, taskVars, callbackVars, batchVars>>

Spec == Init /\ [][Next]_vars

\* SpecLive: the run under the scheduling the code relies on.  The caller
\* makes the call; the pool hands a queued task to an idle worker; every
\* task that was started returns or raises; the thread that runs
\* process_files keeps running.  cancel_processing may or may not be called.
InitLive ==
    /\ Init
    /\ kind \in [1..Len(las_files) -> {"ok", "raise", "over"}]

\* Every step of the run changes the position of the process_files thread
\* or the state of a future.
runVars == <<pc, status, cancelIdx>>

Fairness ==
    /\ WF_runVars(ProcessFiles /\ UNCHANGED <<aggVars, planVars, progressVars, crsVars, polyVars, taskVars, callbackVars, batchVars>>)
    /\ WF_runVars(\E i \in Pos : WorkerStart(i) /\ UNCHANGED <<aggVars, planVars, progressVars, crsVars, polyVars, taskVars, callbackVars, batchVars>>)
    /\ \A p \in 1..Cardinality(Paths) :
           WF_runVars(p \in Pos /\ WorkerFinish(p) /\ UNCHANGED <<aggVars, planVars, progressVars, crsVars, polyVars, taskVars, callbackVars, batchVars>>)
    /\ WF_runVars(\E i \in Pos : Yield(i) /\ UNCHANGED <<aggVars, planVars, progressVars, crsVars, polyVars, taskVars, callbackVars, batchVars>>)
    /\ WF_runVars(Collect /\ UNCHANGED <<aggVars, planVars, progressVars, crsVars, polyVars, taskVars, callbackVars, batchVars>>)
    /\ WF_runVars(LoopEnd /\ UNCHANGED <<aggVars, planVars, progressVars, crsVars, polyVars, taskVars, callbackVars, batchVars>>)
    /\ WF_runVars(CancelFutures /\ UNCHANGED <<aggVars, planVars, progressVars, crsVars, polyVars, taskVars, callbackVars, batchVars>>)
    /\ WF_runVars(ExitPool /\ UNCHANGED <<aggVars, planVars, progressVars, crsVars, polyVars, taskVars, callbackVars, batchVars>>)

NextLive ==
    \/ ProcessFiles /\ UNCHANGED <<aggVars, planVars, progressVars, crsVars, polyVars, taskVars, callbackVars, batchVars>>
    \/ \E i \in Pos : WorkerStart(i) /\ UNCHANGED <<aggVars, planVars, progressVars, crsVars, polyVars, taskVars, callbackVars, batchVars>>
    \/ \E i \in Pos : WorkerFinish(i) /\ UNCHANGED <<aggVars, planVars, progressVars, crsVars, polyVars, taskVars, callbackVars, batchVars>>
    \/ \E i \in Pos : Yield(i) /\ UNCHANGED <<aggVars, planVars, progressVars, crsVars, polyVars, taskVars, callbackVars, batchVars>>
    \/ Collect /\ UNCHANGED <<aggVars, planVars, progressVars, crsVars, polyVars, taskVars, callbackVars, batchVars>>
    \/ LoopEnd /\ UNCHANGED <<aggVars, planVars, progressVars, crsVars, polyVars, taskVars, callbackVars, batchVars>>
    \/ CancelFutures /\ UNCHANGED <<aggVars, planVars, progressVars, crsVars, polyVars, taskVars, callbackVars, batchVars>>
    \/ ExitPool /\ UNCHANGED <<aggVars, planVars, progressVars, crsVars, polyVars, taskVars, callbackVars, batchVars>>
    \/ CancelProcessing /\ UNCHANGED <<snap, calls, aggVars, planVars, progressVars, crsVars, polyVars, taskVars, callbackVars, batchVars>>

SpecLive == InitLive /\ [][NextLive]_vars /\ Fairness

----------------------------------------------------------------------------
(* SpecAgg: _calculate_aggregates on arbitrary result lists *)

\* The records a result list can hold: per path a valid record, a record
\* whose task caught an exception, and the record built for a raised task.
AggRecords ==
    {FileInfoValid(p) : p \in Paths} \cup {FileInfoCaught(p) : p \in Paths}
        \cup {LASFileInfo(p, "raised") : p \in Paths}

SeqsUpTo(S, n) == UNION {[1..k -> S] : k \in 0..n}

InitAgg ==
    /\ aggIn \in SeqsUpTo(AggRecords, MaxResults)
    /\ aggOut = NoAgg
    /\ InitEngineIdle
    /\ InitPlanIdle
    /\ InitProgressIdle
    /\ InitCrsIdle
    /\ InitPolyIdle
    /\ InitTaskIdle
    /\ InitCallbackIdle
    /\ InitBatchIdle

Aggregate ==
    /\ ~aggOut.called
    /\ aggOut' = [called |-> TRUE, value |-> CalculateAggregates(aggIn)]
    /\ UNCHANGED <<aggIn, engineVars, planVars, progressVars, crsVars, polyVars, taskVars, callbackVars, batchVars>>

NextAgg == Aggregate

SpecAgg == InitAgg /\ [][NextAgg]_vars

----------------------------------------------------------------------------
(* SpecPlan: the thread planners of system_utils.py.                       *)
(* Sizes and RAM are whole numbers of GB; the float arithmetic of the      *)
(* source is modelled by exact rational arithmetic, int() by the floor.    *)

\* A file of the planner's list: its size, or "gone" when os.path.exists
\* is false.
PlanSizesGb == {0, 2, 4, 8}
PlanFiles == [exists : {TRUE}, size_gb : PlanSizesGb] \cup {[exists |-> FALSE, size_gb |-> 0]}

RECURSIVE TotalSizeGb(_)
TotalSizeGb(fs) ==
    IF fs = <<>> THEN 0
    ELSE (IF Head(fs).exists THEN Head(fs).size_gb ELSE 0) + TotalSizeGb(Tail(fs))

Max2(a, b) == IF a >= b THEN a ELSE b
Min2(a, b) == IF a <= b THEN a ELSE b

Returned(v) == [called |-> TRUE, raised |-> FALSE, value |-> v]
Raised == [called |-> TRUE, raised |-> TRUE, value |-> 0]

\* base_threads / max_threads_base
BaseThreads(use_convex_hull) == IF use_convex_hull THEN 4 ELSE 12

\* calculate_optimal_threads(total_ram_needed_gb, available_ram_gb, use_convex_hull)
\*   safe_ram_budget = available * 0.5; total <= budget  <=>  2 * total <= available
\*   int(base * (budget / total)) = floor(base * available / (2 * total))
CalculateOptimalThreads(total_ram_needed_gb, available_ram_gb, use_convex_hull) ==
    LET base_threads == BaseThreads(use_convex_hull)
    IN  IF 2 * total_ram_needed_gb <= available_ram_gb
        THEN Returned(base_threads)
        ELSE Returned(Min2(base_threads,
                 Max2(1, (base_threads * available_ram_gb) \div (2 * total_ram_needed_gb))))

\* calculate_optimal_threads_smart(file_paths, available_ram_gb, use_convex_hull)
\*   avg = total / len; ram_per_concurrent_file = avg * 1.0
\*   int(available * 0.90 / ram_per_file) = floor(9 * available * len / (10 * total))
\*   the division raises ZeroDivisionError when the average size is 0.0
CalculateOptimalThreadsSmart(file_paths, available_ram_gb, use_convex_hull) ==
    IF file_paths = <<>> THEN Returned(1)
    ELSE LET total_size_gb == TotalSizeGb(file_paths)
         IN  IF total_size_gb = 0 THEN Raised
             ELSE LET max_threads_by_ram ==
                          Max2(1, (9 * available_ram_gb * Len(file_paths))
                                      \div (10 * total_size_gb))
                  IN  Returned(Max2(1, Min2(max_threads_by_ram,
                                            BaseThreads(use_convex_hull))))

InitPlan ==
    /\ planIn \in [file_paths : SeqsUpTo(PlanFiles, MaxPlanFiles),
                   total_ram_needed_gb : 0..MaxRamGb,
                   available_ram_gb : 0..MaxRamGb,
                   use_convex_hull : BOOLEAN]
    /\ planOut = [batch |-> NoPlan, smart |-> NoPlan]
    /\ InitEngineIdle
    /\ InitAggIdle
    /\ InitProgressIdle
    /\ InitCrsIdle
    /\ InitPolyIdle
    /\ InitTaskIdle
    /\ InitCallbackIdle
    /\ InitBatchIdle

PlanBatch ==
    /\ ~planOut.batch.called
    /\ planOut' = [planOut EXCEPT !.batch =
           CalculateOptimalThreads(planIn.total_ram_needed_gb, planIn.available_ram_gb,
                                   planIn.use_convex_hull)]
    /\ UNCHANGED <<planIn, engineVars, aggVars, progressVars, crsVars, polyVars, taskVars, callbackVars, batchVars>>

PlanSmart ==
    /\ ~planOut.smart.called
    /\ planOut' = [planOut EXCEPT !.smart =
           CalculateOptimalThreadsSmart(planIn.file_paths, planIn.available_ram_gb,
                                        planIn.use_convex_hull)]
    /\ UNCHANGED <<planIn, engineVars, aggVars, progressVars, crsVars, polyVars, taskVars, callbackVars, batchVars>>

NextPlan == PlanBatch \/ PlanSmart

SpecPlan == InitPlan /\ [][NextPlan]_vars

----------------------------------------------------------------------------
(* SpecProgress: process_files with a progress callback.  The callback     *)
(* records its arguments and returns normally.                             *)

\* The sub_progress calls of one _calculate_convex_hull_acreage run.
HullSteps == 4

\* The task calls _calculate_convex_hull_acreage: geometry mode is on and
\* every earlier stage of _process_single_file succeeded.
ReachesHull(k) == use_detailed_acreage /\ k = "ok"

MainCall(c, t, f) ==
    [shape |-> "main", completed |-> c, total |-> t, filename |-> f, message |-> 0]
SubCall(m) ==
    [shape |-> "sub", completed |-> 0, total |-> 0, filename |-> 0, message |-> m]

\* Mutant of SubProgress: a sub_progress call is counted as a completion.
SubProgressCounts(i) ==
    /\ status[i] = "running"
    /\ ReachesHull(kind[i])
    /\ stage[i] < HullSteps
    /\ stage' = [stage EXCEPT ![i] = @ + 1]
    /\ last_call' = SubCall(stage'[i])
    /\ completed' = completed + 1
    /\ UNCHANGED <<engine, HAS_LASPY, las_files, kind, max_workers, cancel_event, pc,
                   status, results, aggregate, cur, cancelIdx, snap, obs, calls,
                   use_detailed_acreage, main_calls>>

\* A worker, inside _calculate_convex_hull_acreage, calls
\* progress_callback("sub_progress", "dummy", message); the run of the hull
\* step emits its messages in order and may end after any of them.
SubProgress(i) ==
    /\ status[i] = "running"
    /\ ReachesHull(kind[i])
    /\ stage[i] < HullSteps
    /\ stage' = [stage EXCEPT ![i] = @ + 1]
    /\ last_call' = SubCall(stage'[i])
    /\ UNCHANGED <<engine, HAS_LASPY, las_files, kind, max_workers, cancel_event, pc,
                   status, results, completed, aggregate, cur, cancelIdx, snap, obs, calls,
                   use_detailed_acreage, main_calls>>

\* progress_callback(completed, len(las_files), las_file.name) at the end
\* of the loop body.
NotifyMain ==
    /\ last_call' = MainCall(completed', Len(las_files), las_files[cur].name)
    /\ main_calls' = main_calls + 1
    /\ UNCHANGED <<use_detailed_acreage, stage>>

\* The task is over: its worker makes no further call.
FinishStage(i) ==
    /\ stage' = [stage EXCEPT ![i] = 0]
    /\ UNCHANGED <<use_detailed_acreage, last_call, main_calls>>

InitProgress ==
    /\ engine \in {"LAS", "Python"}
    /\ HAS_LASPY = TRUE
    /\ las_files \in InjectiveSeqs(Paths, Cardinality(Paths))
    /\ kind \in [1..Len(las_files) -> {"ok", "raise"}]
    /\ max_workers \in 1..MaxWorkers
    /\ cancel_event = FALSE
    /\ pc = "idle"
    /\ status = [i \in 1..Len(las_files) |-> "new"]
    /\ results = <<>>
    /\ completed = 0
    /\ aggregate = NoAggregate
    /\ cur = 0
    /\ cancelIdx = 0
    /\ snap = NoSnap
    /\ obs = NoObs
    /\ calls = 0
    /\ use_detailed_acreage \in BOOLEAN
    /\ stage = [i \in 1..Len(las_files) |-> 0]
    /\ last_call = NoCall
    /\ main_calls = 0
    /\ InitAggIdle
    /\ InitPlanIdle
    /\ InitCrsIdle
    /\ InitPolyIdle
    /\ InitTaskIdle
    /\ InitCallbackIdle
    /\ InitBatchIdle

NextProgress ==
    \/ ProcessFiles /\ UNCHANGED <<aggVars, planVars, progressVars, crsVars, polyVars, taskVars, callbackVars, batchVars>>
    \/ \E i \in Pos : WorkerStart(i) /\ UNCHANGED <<aggVars, planVars, progressVars, crsVars, polyVars, taskVars, callbackVars, batchVars>>
    \/ \E i \in Pos : SubProgress(i) /\ UNCHANGED <<aggVars, planVars, crsVars, polyVars, taskVars, callbackVars, batchVars>>
    \/ \E i \in Pos : WorkerFinish(i) /\ FinishStage(i) /\ UNCHANGED <<aggVars, planVars, crsVars, polyVars, taskVars, callbackVars, batchVars>>
    \/ \E i \in Pos : Yield(i) /\ UNCHANGED <<aggVars, planVars, progressVars, crsVars, polyVars, taskVars, callbackVars, batchVars>>
    \/ Collect /\ NotifyMain /\ UNCHANGED <<aggVars, planVars, crsVars, polyVars, taskVars, callbackVars, batchVars>>
    \/ LoopEnd /\ UNCHANGED <<aggVars, planVars, progressVars, crsVars, polyVars, taskVars, callbackVars, batchVars>>
    \/ CancelFutures /\ UNCHANGED <<aggVars, planVars, progressVars, crsVars, polyVars, taskVars, callbackVars, batchVars>>
    \/ ExitPool /\ UNCHANGED <<aggVars, planVars, progressVars, crsVars, polyVars, taskVars, callbackVars, batchVars>>
    \/ CancelProcessing /\ UNCHANGED <<snap, calls, aggVars, planVars, progressVars, crsVars, polyVars, taskVars, callbackVars, batchVars>>

SpecProgress == InitProgress /\ [][NextProgress]_vars

----------------------------------------------------------------------------
(* SpecCrs: CRS and unit resolution.                                       *)
(* A metadata record (the string of a VLR, a line of the lasinfo output)   *)
(* is described by what the substring tests and regular expressions of the *)
(* code find in it:                                                        *)
(*   text      the record has a non-empty string                           *)
(*   citation  "none": no 'GTCitationGeoKey'; "nomatch": the marker is     *)
(*             there but the pattern after it does not match; "match"      *)
(*   name      "compd": 'COMPD_CS' and 'NAD83' with a quoted name;         *)
(*             "geoascii": 'NAD83' and 'Maine' with a quoted name          *)
(*   us        'US survey foot' (or 'Linear_Foot_US_Survey')               *)
(*   foot      'linear_foot' or 'ftus', case-insensitive                   *)
(*   meter     'meter' with 'linear_meter' or 'unit[', case-insensitive    *)

MaxVlrs == 2

NoText == [text |-> FALSE, citation |-> "none", name |-> "none",
           us |-> FALSE, foot |-> FALSE, meter |-> FALSE]
VlrRecords ==
    [text : {TRUE}, citation : {"none", "nomatch", "match"}, name : {"none", "compd"},
     us : BOOLEAN, foot : BOOLEAN, meter : BOOLEAN]
        \cup [text : {TRUE}, citation : {"none"}, name : {"geoascii"},
              us : BOOLEAN, foot : {FALSE}, meter : {FALSE}]
        \cup {NoText}

\* header.min / header.max of the files the resolver is applied to
Headers ==
    {[min_x |-> 0, max_x |-> 10, min_y |-> 0, max_y |-> 10],
     [min_x |-> 500000, max_x |-> 505000, min_y |-> 4900000, max_y |-> 4905000],
     [min_x |-> 500000, max_x |-> 500500, min_y |-> 4900000, max_y |-> 4900500],
     [min_x |-> 2000000, max_x |-> 2100000, min_y |-> 300000, max_y |-> 310000],
     [min_x |-> 2000000, max_x |-> 2000500, min_y |-> 300000, max_y |-> 300500],
     [min_x |-> 2950000, max_x |-> 2960000, min_y |-> 350000, max_y |-> 360000]}

Abs(x) == IF x < 0 THEN -x ELSE x

Label(src, k) == [src |-> src, rec |-> k, name |-> ""]
FallbackLabel(n) == [src |-> "coordinates", rec |-> 0, name |-> n]

\* The label branch of the loop body for record k: if / elif / elif, each
\* assigning crs_info when its pattern matches.
LabelAfter(crs_info, v, k) ==
    IF v.citation # "none"
    THEN (IF v.citation = "match" THEN Label("citation", k) ELSE crs_info)
    ELSE IF v.name = "compd" THEN Label("compd", k)
    ELSE IF v.name = "geoascii" THEN Label("geoascii", k)
    ELSE crs_info

\* The unit branch of the loop body: if / elif / elif, each assigning
\* crs_units.
UnitsAfter(crs_units, v) ==
    IF v.us THEN "us_survey_feet"
    ELSE IF v.foot THEN "feet"
    ELSE IF v.meter THEN "meters"
    ELSE crs_units

\* for vlr in vlrs: records without a string are skipped.
RECURSIVE ScanVlrs(_, _, _)
ScanVlrs(vlrs, k, acc) ==
    IF k > Len(vlrs) THEN acc
    ELSE IF ~vlrs[k].text THEN ScanVlrs(vlrs, k + 1, acc)
    ELSE ScanVlrs(vlrs, k + 1,
                  [crs_info |-> LabelAfter(acc.crs_info, vlrs[k], k),
                   crs_units |-> UnitsAfter(acc.crs_units, vlrs[k])])

\* _detect_units_from_coordinates
DetectUnitsFromCoordinates(h) ==
    LET x_range == Abs(h.max_x - h.min_x)
        y_range == Abs(h.max_y - h.min_y)
    IN  IF /\ h.min_x > 1000000 /\ h.max_x > 1000000
           /\ h.min_y > 100000 /\ h.max_y > 100000
           /\ x_range > 1000 /\ y_range > 1000
        THEN "us_survey_feet"
        ELSE IF /\ h.min_x > 100000 /\ h.max_x > 100000
                /\ h.min_y > 100000 /\ h.max_y > 100000
                /\ x_range > 1000 /\ y_range > 1000
        THEN "meters"
        ELSE "meters"

\* _detect_crs_from_coordinates
DetectCrsFromCoordinates(h) ==
    IF /\ h.min_x > 1000000 /\ h.max_x > 1000000
       /\ h.min_y > 100000 /\ h.max_y > 100000
    THEN IF /\ h.min_x > 2900000 /\ h.max_x < 3000000
            /\ h.min_y > 300000 /\ h.max_y < 400000
         THEN FallbackLabel("NAD83(2011) / Maine West (ftUS)")
         ELSE FallbackLabel("NAD83 / US State Plane (ftUS)")
    ELSE IF /\ h.min_x > 100000 /\ h.max_x > 100000
            /\ h.min_y > 100000 /\ h.max_y > 100000
    THEN FallbackLabel("WGS84 / UTM Zone (m)")
    ELSE NoLabel

\* _extract_crs_info(vlrs, header)
ExtractCrsInfo(vlrs, header) ==
    LET scanned == ScanVlrs(vlrs, 1, [crs_info |-> NoLabel, crs_units |-> "unknown"])
    IN  [called |-> TRUE,
         crs_info |-> IF scanned.crs_info = NoLabel
                      THEN DetectCrsFromCoordinates(header)
                      ELSE scanned.crs_info,
         crs_units |-> IF scanned.crs_units = "unknown"
                       THEN DetectUnitsFromCoordinates(header)
                       ELSE scanned.crs_units]

\* The unit detection of _parse_lasinfo_output, one record per output line:
\* the lines are scanned in order, each line that holds a marker assigns
\* file_info.crs_units; there is no fallback.  crs_info is not a label there
\* (it is the joined CRS lines) and is left out.
ParseLasinfoUnits(lines) ==
    [called |-> TRUE,
     crs_info |-> NoLabel,
     crs_units |-> ScanVlrs(lines, 1, [crs_info |-> NoLabel, crs_units |-> "unknown"]).crs_units]

InitCrs ==
    /\ crsIn \in [vlrs : SeqsUpTo(VlrRecords, MaxVlrs), header : Headers]
    /\ crsOut = [python |-> NoCrs, lasinfo |-> NoCrs]
    /\ InitEngineIdle
    /\ InitAggIdle
    /\ InitPlanIdle
    /\ InitProgressIdle
    /\ InitPolyIdle
    /\ InitTaskIdle
    /\ InitCallbackIdle
    /\ InitBatchIdle

ResolvePython ==
    /\ ~crsOut.python.called
    /\ crsOut' = [crsOut EXCEPT !.python = ExtractCrsInfo(crsIn.vlrs, crsIn.header)]
    /\ UNCHANGED <<crsIn, engineVars, aggVars, planVars, progressVars, polyVars, taskVars, callbackVars, batchVars>>

ResolveLasinfo ==
    /\ ~crsOut.lasinfo.called
    /\ crsOut' = [crsOut EXCEPT !.lasinfo = ParseLasinfoUnits(crsIn.vlrs)]
    /\ UNCHANGED <<crsIn, engineVars, aggVars, planVars, progressVars, polyVars, taskVars, callbackVars, batchVars>>

NextCrs == ResolvePython \/ ResolveLasinfo

SpecCrs == InitCrs /\ [][NextCrs]_vars

----------------------------------------------------------------------------
(* SpecPoly: _polygon_area (the same code in both engines) applied to      *)
(* vertex sequences with whole-number coordinates, on which the float      *)
(* arithmetic of the code is exact.                                        *)

MaxVertices == 4

Coords == {-1, 0, 100}
Vertices == Coords \X Coords

\* The loop of _polygon_area from index i on (0-based, as in the code), area
\* being the sum accumulated so far.
RECURSIVE Shoelace(_, _, _)
Shoelace(vertices, i, area) ==
    LET n == Len(vertices) IN
    IF i >= n THEN area
    ELSE LET x1 == vertices[i + 1][1]
             y1 == vertices[i + 1][2]
             x2 == vertices[((i + 1) % n) + 1][1]
             y2 == vertices[((i + 1) % n) + 1][2]
         IN  Shoelace(vertices, i + 1, area + (x1 * y2 - x2 * y1))

\* Mutant of PolygonArea: the signed area, without abs().
PolygonAreaSigned(vertices) ==
    IF Len(vertices) < 3 THEN Half(0)
    ELSE Half(Shoelace(vertices, 0, 0))

PolygonArea(vertices) ==
    IF Len(vertices) < 3 THEN Half(0)
    ELSE Half(Abs(Shoelace(vertices, 0, 0)))

InitPoly ==
    /\ polyIn \in SeqsUpTo(Vertices, MaxVertices)
    /\ polyOut = NoArea
    /\ InitEngineIdle
    /\ InitAggIdle
    /\ InitPlanIdle
    /\ InitProgressIdle
    /\ InitCrsIdle
    /\ InitTaskIdle
    /\ InitCallbackIdle
    /\ InitBatchIdle

MeasurePolygon ==
    /\ ~polyOut.returned
    /\ polyOut' = [returned |-> TRUE, area |-> PolygonArea(polyIn)]
    /\ UNCHANGED <<polyIn, engineVars, aggVars, planVars, progressVars, crsVars, taskVars, callbackVars, batchVars>>

NextPoly == MeasurePolygon

SpecPoly == InitPoly /\ [][NextPoly]_vars

----------------------------------------------------------------------------
(* SpecTask: one call of _process_single_file, through the density stage   *)
(* and the footprint step _calculate_convex_hull_acreage, followed by the  *)
(* handling of its future in process_files.  A point cloud is a set of     *)
(* grid points; the header of the file is the one that cloud has.          *)

MaxPoints == 4

GridPoints == (0..2) \X (0..2)
Clouds == {c \in SUBSET GridPoints : Cardinality(c) <= MaxPoints}
Units == {"meters", "feet", "us_survey_feet", "unknown"}

\* Where the call meets an exception:
\*   "none"       nowhere
\*   "stat"       filepath.stat() before the try block of the task
\*   "extract"    lasinfo (run, timeout, parse) or laspy.open / the header
\*   "points"     las_file.read() in the task of PythonLASProcessor
\*   "hull_read"  filepath.stat() or the point read inside the footprint step
\*   "hull_fail"  ConvexHull or a later statement of the footprint step
Faults == {"none", "stat", "extract", "points", "hull_read", "hull_fail"}

Cross(o, a, b) == (a[1] - o[1]) * (b[2] - o[2]) - (a[2] - o[2]) * (b[1] - o[1])

\* h lists the extreme points of the cloud counter-clockwise: what
\* hull.vertices indexes for 2-D input.
IsHull(h, cloud) ==
    LET n == Len(h)
        nxt(i) == (i % n) + 1
    IN  /\ n >= 3
        /\ \A i \in 1..n : Cross(h[i], h[nxt(i)], h[nxt(nxt(i))]) > 0
        /\ \A i \in 1..n : \A q \in cloud : Cross(h[i], h[nxt(i)], q) >= 0

\* ConvexHull(points_xy): raises QhullError when the input has fewer than 3
\* points or is flat (all points on one line).
ConvexHull(cloud) ==
    LET hs == {h \in InjectiveSeqs(cloud, Cardinality(cloud)) : IsHull(h, cloud)}
    IN  IF hs = {} THEN [raised |-> TRUE, vertices |-> <<>>]
        ELSE [raised |-> FALSE, vertices |-> CHOOSE h \in hs : TRUE]

\* The conversion branches of both engines: square feet for the two foot
\* units, square metres for everything else.
AcresPer(crs_units) ==
    IF crs_units \in {"us_survey_feet", "feet"} THEN "acres_per_sq_ft" ELSE "acres_per_sq_m"
SqMetresPer(crs_units) ==
    IF crs_units = "us_survey_feet" THEN "us_survey_ft_to_meters ** 2"
    ELSE IF crs_units = "feet" THEN "feet_to_meters ** 2"
    ELSE "1"

\* area * conversion, and point_count / area_sq_meters, for area = area2 / 2.
Acres(area2, crs_units) == [area2 |-> area2, per |-> AcresPer(crs_units)]
Density(point_count, area2, crs_units) ==
    IF point_count = 0 THEN ZeroDensity
    ELSE [pts |-> point_count, area2 |-> area2, per |-> SqMetresPer(crs_units)]
Positive(d) == d.pts > 0 /\ d.area2 > 0

\* The header fields of the file that holds the cloud.
HeaderOf(cloud) ==
    IF cloud = {} THEN [point_count |-> 0, min_x |-> 0, max_x |-> 0, min_y |-> 0, max_y |-> 0]
    ELSE [point_count |-> Cardinality(cloud),
          min_x |-> MinOf({q[1] : q \in cloud}), max_x |-> MaxOf({q[1] : q \in cloud}),
          min_y |-> MinOf({q[2] : q \in cloud}), max_y |-> MaxOf({q[2] : q \in cloud})]

\* The record once the header stage filled it.
WithHeader(in) ==
    HeaderOf(in.cloud) @@ [crs_units |-> in.crs_units] @@ NewFileInfo

\* abs(max_x - min_x) * abs(max_y - min_y), in half units.
BBoxArea2(file_info) ==
    2 * Abs(file_info.max_x - file_info.min_x) * Abs(file_info.max_y - file_info.min_y)

\* _calculate_point_density of PythonLASProcessor.
CalculatePointDensity(file_info) ==
    IF BBoxArea2(file_info) > 0
    THEN Density(file_info.point_count, BBoxArea2(file_info), file_info.crs_units)
    ELSE ZeroDensity

\* The density stage.  PythonLASProcessor assigns the bounding-box density;
\* the branch of _parse_lasinfo_output computes the area and assigns nothing.
WithDensity(in, file_info) ==
    IF /\ file_info.min_x # file_info.max_x
       /\ file_info.min_y # file_info.max_y
       /\ file_info.point_count > 0
       /\ in.engine = "Python"
    THEN [file_info EXCEPT !.point_density = CalculatePointDensity(file_info)]
    ELSE file_info

\* las_data as _process_single_file of PythonLASProcessor hands it to the
\* footprint step: FALSE stands for None.
HasLasData(in) ==
    /\ in.fault # "points"
    /\ in.extract_classifications \/ in.use_detailed_acreage

\* The assignments both engines make from a hull area (area = area2 / 2).
WithFootprint(file_info, area2) ==
    IF area2 > 0
    THEN [file_info EXCEPT
              !.acreage_detailed = Acres(area2, file_info.crs_units),
              !.point_density = Density(file_info.point_count, area2, file_info.crs_units)]
    ELSE file_info

\* Mutant of CalculateConvexHullAcreage: a failure inside the step is
\* written to the record.
CalculateConvexHullAcreageSurfaced(in, file_info) ==
    IF in.fault \in {"hull_read", "hull_fail"} \/ ConvexHull(in.cloud).raised
    THEN [file_info EXCEPT !.error = "caught", !.point_density = ZeroDensity]
    ELSE WithFootprint(file_info, PolygonArea(ConvexHull(in.cloud).vertices)[1])

\* _calculate_convex_hull_acreage: every exception is caught inside the
\* step.  LASProcessor reads the points itself and returns early on fewer
\* than 3 points; PythonLASProcessor computes the hull only from the las_data
\* it was handed, and when handed None reads the file and does nothing more.
CalculateConvexHullAcreage(in, file_info) ==
    LET hull == ConvexHull(in.cloud) IN
    IF in.fault = "hull_read" THEN file_info
    ELSE IF in.engine = "LAS"
    THEN IF Cardinality(in.cloud) < 3 THEN file_info
         ELSE IF hull.raised \/ in.fault = "hull_fail" THEN file_info
         ELSE WithFootprint(file_info, PolygonArea(hull.vertices)[1])
    ELSE IF ~HasLasData(in) THEN file_info
         ELSE IF Cardinality(in.cloud) = 0 THEN file_info
         ELSE IF hull.raised \/ in.fault = "hull_fail" THEN file_info
         ELSE WithFootprint(file_info, PolygonArea(hull.vertices)[1])

\* The record when the task reaches the footprint step.
BeforeHull(in) == WithDensity(in, WithHeader(in))

\* Mutant of ProcessSingleFile: the failing stage runs after the footprint
\* step.
ProcessSingleFileLateError(in) ==
    LET file_info == IF in.use_detailed_acreage
                     THEN CalculateConvexHullAcreage(in, BeforeHull(in))
                     ELSE BeforeHull(in)
    IN  [returned |-> TRUE, raised |-> in.fault = "stat",
         file_info |-> IF in.fault = "extract"
                       THEN [file_info EXCEPT !.error = "caught"]
                       ELSE file_info]

\* _process_single_file.  The stat() of the constructor call is outside the
\* try block; an exception of the extraction stage sets error and skips the
\* rest; the footprint step is the last statement of the try block.
ProcessSingleFile(in) ==
    IF in.fault = "stat"
    THEN [returned |-> TRUE, raised |-> TRUE, file_info |-> NewFileInfo]
    ELSE IF in.fault = "extract"
    THEN [returned |-> TRUE, raised |-> FALSE,
          file_info |-> [NewFileInfo EXCEPT !.error = "caught"]]
    ELSE [returned |-> TRUE, raised |-> FALSE,
          file_info |-> IF in.use_detailed_acreage
                        THEN CalculateConvexHullAcreage(in, BeforeHull(in))
                        ELSE BeforeHull(in)]

\* What the loop of process_files appends for the future of the call.
Appended(out) ==
    IF out.raised THEN [NewFileInfo EXCEPT !.error = "str(e)"] ELSE out.file_info

InitTask ==
    /\ taskIn \in [engine : {"LAS", "Python"}, use_detailed_acreage : BOOLEAN,
                   extract_classifications : BOOLEAN, cloud : Clouds,
                   crs_units : Units, fault : Faults]
    /\ taskIn.engine = "LAS" => (taskIn.extract_classifications /\ taskIn.fault # "points")
    /\ ~taskIn.use_detailed_acreage => taskIn.fault \notin {"hull_read", "hull_fail"}
    /\ taskOut = NoTask
    /\ InitEngineIdle
    /\ InitAggIdle
    /\ InitPlanIdle
    /\ InitProgressIdle
    /\ InitCrsIdle
    /\ InitPolyIdle
    /\ InitCallbackIdle
    /\ InitBatchIdle

RunTask ==
    /\ ~taskOut.returned
    /\ taskOut' = ProcessSingleFile(taskIn)
    /\ UNCHANGED <<taskIn, engineVars, aggVars, planVars, progressVars, crsVars, polyVars, callbackVars, batchVars>>

NextTask == RunTask

SpecTask == InitTask /\ [][NextTask]_vars

----------------------------------------------------------------------------
(* SpecCallback: the run of process_files with a progress callback that    *)
(* can raise.                                                              *)
(*   "app"     the callback run_scan builds: when gui.cancel_requested is  *)
(*             set it calls cancel_processing and raises KeyboardInterrupt *)
(*   "faulty"  a callback that raises an Exception at some of its calls    *)

\* What a main-progress call of the callback does.
Outcomes ==
    IF callback = "app"
    THEN (IF cancel_requested THEN {"interrupt"} ELSE {"return"})
    ELSE {"return", "exception"}

\* gui._cancel_scan, on the GUI thread.
RequestCancel ==
    /\ callback = "app"
    /\ ~cancel_requested
    /\ cancel_requested' = TRUE
    /\ UNCHANGED <<callback, counted, unwound>>

\* The callback returns: the loop body is the one of Collect.
CallbackReturns ==
    /\ "return" \in Outcomes
    /\ counted' = [counted EXCEPT ![cur] = @ + 1]
    /\ UNCHANGED <<callback, cancel_requested, unwound>>

\* The body of the loop when the callback raises.
\*   LASProcessor: the call is outside the try block; any exception leaves
\*     the loop and the with block.
\*   PythonLASProcessor: the call is inside the try block.  An Exception
\*     raised after a successful future.result() is caught by the except
\*     branch, which appends an error record, counts again and calls the
\*     callback again (out2); everything else leaves the loop: an
\*     exception raised by the call of the except branch, and a
\*     KeyboardInterrupt, which except Exception does not catch.
\* The app callback calls cancel_processing before it raises.
CollectRaising ==
    /\ pc = "got"
    /\ \E out1 \in Outcomes \ {"return"}, out2 \in Outcomes :
          LET twice == /\ engine = "Python"
                       /\ ~TaskRaises(kind[cur])
                       /\ out1 = "exception"
              leaves == ~twice \/ out2 # "return"
          IN  /\ ~twice => out2 = out1
              /\ results' = IF twice
                            THEN Append(Append(results, CollectedRecord(cur)),
                                        LASFileInfo(las_files[cur], "raised"))
                            ELSE Append(results, CollectedRecord(cur))
              /\ completed' = completed + (IF twice THEN 2 ELSE 1)
              /\ counted' = [counted EXCEPT ![cur] = @ + (IF twice THEN 2 ELSE 1)]
              /\ cancel_event' = (cancel_event \/ out1 = "interrupt")
              /\ pc' = IF leaves THEN "unwind" ELSE "wait"
              /\ unwound' = IF leaves
                            THEN [taken |-> TRUE, pending |-> WithStatus("pending"),
                                  by |-> out2]
                            ELSE unwound
    /\ status' = [status EXCEPT ![cur] = "collected"]
    /\ cur' = 0
    /\ UNCHANGED <<engine, HAS_LASPY, las_files, kind, max_workers, aggregate,
                   cancelIdx, snap, obs, calls, callback, cancel_requested>>

\* The exception leaves the with block: ThreadPoolExecutor.__exit__ calls
\* shutdown(wait=True), which joins the workers once the queue is empty;
\* then the exception leaves process_files, which returns nothing.
PropagateOut ==
    /\ pc = "unwind"
    /\ WithStatus("pending") = {}
    /\ WithStatus("running") = {}
    /\ pc' = "raised"
    /\ UNCHANGED <<engine, HAS_LASPY, las_files, kind, max_workers, cancel_event,
                   status, results, completed, aggregate, cur, cancelIdx, snap, obs, calls,
                   callbackVars>>

InitCallback ==
    /\ engine \in {"LAS", "Python"}
    /\ HAS_LASPY = TRUE
    /\ las_files \in InjectiveSeqs(Paths, Cardinality(Paths))
    /\ kind \in [1..Len(las_files) -> {"ok", "raise"}]
    /\ max_workers \in 1..MaxWorkers
    /\ cancel_event = FALSE
    /\ pc = "idle"
    /\ status = [i \in 1..Len(las_files) |-> "new"]
    /\ results = <<>>
    /\ completed = 0
    /\ aggregate = NoAggregate
    /\ cur = 0
    /\ cancelIdx = 0
    /\ snap = NoSnap
    /\ obs = NoObs
    /\ calls = 0
    /\ callback \in {"app", "faulty"}
    /\ cancel_requested = FALSE
    /\ counted = [i \in 1..Len(las_files) |-> 0]
    /\ unwound = NoUnwind
    /\ InitAggIdle
    /\ InitPlanIdle
    /\ InitProgressIdle
    /\ InitCrsIdle
    /\ InitPolyIdle
    /\ InitTaskIdle
    /\ InitBatchIdle

NextCallback ==
    \/ ProcessFiles /\ UNCHANGED <<aggVars, planVars, progressVars, crsVars, polyVars, taskVars, callbackVars, batchVars>>
    \/ \E i \in Pos : WorkerStart(i) /\ UNCHANGED <<aggVars, planVars, progressVars, crsVars, polyVars, taskVars, callbackVars, batchVars>>
    \/ \E i \in Pos : WorkerFinish(i) /\ UNCHANGED <<aggVars, planVars, progressVars, crsVars, polyVars, taskVars, callbackVars, batchVars>>
    \/ \E i \in Pos : Yield(i) /\ UNCHANGED <<aggVars, planVars, progressVars, crsVars, polyVars, taskVars, callbackVars, batchVars>>
    \/ Collect /\ CallbackReturns /\ UNCHANGED <<aggVars, planVars, progressVars, crsVars, polyVars, taskVars, batchVars>>
    \/ CollectRaising /\ UNCHANGED <<aggVars, planVars, progressVars, crsVars, polyVars, taskVars, batchVars>>
    \/ PropagateOut /\ UNCHANGED <<aggVars, planVars, progressVars, crsVars, polyVars, taskVars, batchVars>>
    \/ LoopEnd /\ UNCHANGED <<aggVars, planVars, progressVars, crsVars, polyVars, taskVars, callbackVars, batchVars>>
    \/ CancelFutures /\ UNCHANGED <<aggVars, planVars, progressVars, crsVars, polyVars, taskVars, callbackVars, batchVars>>
    \/ ExitPool /\ UNCHANGED <<aggVars, planVars, progressVars, crsVars, polyVars, taskVars, callbackVars, batchVars>>
    \/ CancelProcessing /\ UNCHANGED <<snap, calls, aggVars, planVars, progressVars, crsVars, polyVars, taskVars, callbackVars, batchVars>>
    \/ RequestCancel /\ UNCHANGED <<engineVars, aggVars, planVars, progressVars, crsVars, polyVars, taskVars, batchVars>>

SpecCallback == InitCallback /\ [][NextCallback]_vars

----------------------------------------------------------------------------
(* SpecBatches: several process_files calls, one after the other, on the   *)
(* same engine instance, with cancel_processing called from another thread *)
(* at any time, between the calls included.                                *)

MaxBatches == 2

\* process_files is entered.
BeginBatch ==
    /\ batch' = batch + 1
    /\ cancelled_in_run' = FALSE

\* cancel_processing is called while a process_files call is under way, or
\* while none is.
CancelNoted ==
    /\ cancelled_in_run' = (cancelled_in_run \/ pc \notin {"idle", "done"})
    /\ UNCHANGED batch

\* process_files has returned and the caller hands the same files to the
\* same instance again: the locals of the new call are fresh, the instance
\* keeps its attributes.
CallAgain ==
    /\ pc = "done"
    /\ batch < MaxBatches
    /\ pc' = "idle"
    /\ status' = [i \in Pos |-> "new"]
    /\ results' = <<>>
    /\ completed' = 0
    /\ aggregate' = NoAggregate
    /\ cur' = 0
    /\ cancelIdx' = 0
    /\ obs' = NoObs
    /\ UNCHANGED <<engine, HAS_LASPY, las_files, kind, max_workers, cancel_event,
                   snap, calls, batchVars>>

InitBatches ==
    /\ engine \in {"LAS", "Python"}
    /\ HAS_LASPY = TRUE
    /\ las_files \in InjectiveSeqs(Paths, Cardinality(Paths))
    /\ kind \in [1..Len(las_files) -> {"ok", "raise"}]
    /\ max_workers \in 1..MaxWorkers
    /\ cancel_event = FALSE
    /\ pc = "idle"
    /\ status = [i \in 1..Len(las_files) |-> "new"]
    /\ results = <<>>
    /\ completed = 0
    /\ aggregate = NoAggregate
    /\ cur = 0
    /\ cancelIdx = 0
    /\ snap = NoSnap
    /\ obs = NoObs
    /\ calls = 0
    /\ batch = 0
    /\ cancelled_in_run = FALSE
    /\ InitAggIdle
    /\ InitPlanIdle
    /\ InitProgressIdle
    /\ InitCrsIdle
    /\ InitPolyIdle
    /\ InitTaskIdle
    /\ InitCallbackIdle

NextBatches ==
    \/ ProcessFiles /\ BeginBatch /\ UNCHANGED <<aggVars, planVars, progressVars, crsVars, polyVars, taskVars, callbackVars>>
    \/ \E i \in Pos : WorkerStart(i) /\ UNCHANGED <<aggVars, planVars, progressVars, crsVars, polyVars, taskVars, callbackVars, batchVars>>
    \/ \E i \in Pos : WorkerFinish(i) /\ UNCHANGED <<aggVars, planVars, progressVars, crsVars, polyVars, taskVars, callbackVars, batchVars>>
    \/ \E i \in Pos : Yield(i) /\ UNCHANGED <<aggVars, planVars, progressVars, crsVars, polyVars, taskVars, callbackVars, batchVars>>
    \/ Collect /\ UNCHANGED <<aggVars, planVars, progressVars, crsVars, polyVars, taskVars, callbackVars, batchVars>>
    \/ LoopEnd /\ UNCHANGED <<aggVars, planVars, progressVars, crsVars, polyVars, taskVars, callbackVars, batchVars>>
    \/ CancelFutures /\ UNCHANGED <<aggVars, planVars, progressVars, crsVars, polyVars, taskVars, callbackVars, batchVars>>
    \/ ExitPool /\ UNCHANGED <<aggVars, planVars, progressVars, crsVars, polyVars, taskVars, callbackVars, batchVars>>
    \/ CancelProcessing /\ CancelNoted /\ UNCHANGED <<snap, calls, aggVars, planVars, progressVars, crsVars, polyVars, taskVars, callbackVars>>
    \/ CallAgain /\ UNCHANGED <<aggVars, planVars, progressVars, crsVars, polyVars, taskVars, callbackVars>>

SpecBatches == InitBatches /\ [][NextBatches]_vars

----------------------------------------------------------------------------
(* Properties of process_files (Spec) *)

\* The positions of results that hold the record of las_files[i].
RecordsOf(i) == {j \in 1..Len(results) : results[j].filepath = las_files[i]}

\* The batch went through the worker pool: it was not failed at entry.
FailedAtEntry ==
    \/ engine = "LAS" /\ \E i \in Pos : FailsValidation(kind[i])
    \/ engine = "Python" /\ ~HAS_LASPY
ThroughPool == ~FailedAtEntry

\* The loop saw the flag set and left through its cancel step.
Cancelled == obs # NoObs

IsSortedByFilename(rs) ==
    \A j \in 1..(Len(rs) - 1) : rs[j].filename <= rs[j + 1].filename

\* C1: a batch that passes validation, on which cancel_processing is never
\* called and whose callback returns normally, returns exactly one record
\* per submitted file, whether the file's task returned or raised.
C1_OneRecordPerFile ==
    (pc = "done" /\ calls = 0 /\ ~(engine = "LAS" /\ \E i \in Pos : FailsValidation(kind[i])))
        => /\ Len(results) = N
           /\ \A i \in Pos : Cardinality(RecordsOf(i)) = 1

C1_Witness ==
    /\ pc = "done" /\ calls = 0 /\ N = 3 /\ ThroughPool
    /\ \E i \in Pos : kind[i] = "raise"
    /\ \E i \in Pos : kind[i] = "ok"
    /\ \E i \in Pos : kind[i] = "err"
    /\ Len(results) = 3

\* C3: in LASProcessor, when a file exceeds the 20 GB cap no task is ever
\* submitted, and the call returns one error record per file with
\* failed_files = N and valid_files = 0.
C3_OversizeFailsBatch ==
    (engine = "LAS" /\ \E i \in Pos : kind[i] = "over")
        => /\ \A i \in Pos : status[i] = "new"
           /\ pc \in {"idle", "done"}
           /\ pc = "done" =>
                 /\ Len(results) = N
                 /\ \A j \in 1..Len(results) : results[j].error # "None"
                 /\ aggregate.failed_files = N
                 /\ aggregate.valid_files = 0

C3_Witness ==
    /\ engine = "LAS" /\ pc = "done" /\ N = 3
    /\ \E i \in Pos : kind[i] = "over"
    /\ \E i \in Pos : kind[i] = "ok"
    /\ aggregate.failed_files = 3

\* C5: when cancel_processing is called while the batch runs, after m
\* records were collected, process_files returns a list of k records with
\* m <= k <= N.
C5_CancelledLength ==
    (pc = "done" /\ snap.taken)
        => /\ Cardinality(snap.collected) <= Len(results)
           /\ Len(results) <= N
           /\ aggregate.total_files = Len(results)

\* a cancel call after one record, answered by two records out of three
C5_Witness ==
    /\ pc = "done" /\ snap.taken /\ Cancelled
    /\ Cardinality(snap.collected) = 1
    /\ Len(results) = 2
    /\ N = 3

\* C6 as stated: a cancelled batch returns the record of every file whose
\* task had finished when cancellation was requested.
C6_FinishedKept ==
    (pc = "done" /\ Cancelled /\ snap.taken)
        => \A i \in snap.finished : RecordsOf(i) # {}

\* C6 as amended: a cancelled batch returns the record of every file whose
\* record the loop had already collected when cancellation was requested.
C6_CollectedKept ==
    (pc = "done" /\ Cancelled /\ snap.taken)
        => \A i \in snap.collected : Cardinality(RecordsOf(i)) = 1

C6_Witness ==
    /\ pc = "done" /\ Cancelled /\ snap.taken
    /\ snap.collected # {}
    /\ snap.finished # snap.collected
    /\ \E i \in snap.finished : RecordsOf(i) = {}

\* C7 as stated: from the moment the loop sees the flag set, no task that
\* had not started starts, and no record is appended.
C7_NothingStartsAfterObservation ==
    Cancelled
        => /\ \A i \in obs.pending : status[i] \in {"pending", "cancelled"}
           /\ Len(results) = obs.collected

\* C7 as amended: after the loop has seen the flag set no record is
\* appended and no running task is cancelled; once its cancel step is over
\* no task is left that could still start: each task that was pending at
\* the observation was cancelled or was taken by a worker during the step.
C7_AbandonedAfterCancelStep ==
    Cancelled
        => /\ Len(results) = obs.collected
           /\ \A i \in obs.running : status[i] \in {"running", "finished"}
           /\ pc \in {"exit", "done"} =>
                 /\ WithStatus("pending") = {}
                 /\ \A i \in obs.pending : status[i] \in {"cancelled", "running", "finished"}

C7_Witness ==
    /\ Cancelled /\ pc = "done"
    /\ \E i \in obs.pending : status[i] = "cancelled"
    /\ \E i \in obs.running : status[i] = "finished"

\* C8: a cancel_processing call sets the event and changes nothing else of
\* the engine; made when the event is already set it changes nothing at
\* all; made after the return it leaves results and aggregate as returned.
C8_CancelIdempotent ==
    [][calls' # calls =>
          /\ cancel_event' = TRUE
          /\ UNCHANGED <<pc, status, results, completed, aggregate, cur, cancelIdx,
                         las_files, kind, max_workers>>
          /\ cancel_event => UNCHANGED cancel_event]_vars

\* two calls, at least one of them after LASProcessor.process_files returned
C8_Witness ==
    /\ calls = 2 /\ pc = "done" /\ engine = "LAS"
    /\ cancel_event /\ ~snap.taken
    /\ Len(results) = 3

\* C9: without cancellation the returned list and aggregate are the same for
\* every completion order: the list is the stable sort of the records in
\* submission order, which is what the order of submission itself yields.
SubmissionOrderRecords == [i \in Pos |-> CollectedRecord(i)]
C9_ScheduleIndependent ==
    (pc = "done" /\ calls = 0 /\ ThroughPool)
        => /\ results = SortByFilename(SubmissionOrderRecords)
           /\ aggregate = CalculateAggregates(SortByFilename(SubmissionOrderRecords))

\* C9 restricted to lists whose file names are pairwise distinct (every
\* list find_las_files builds from one directory): the output is the same
\* for every completion order.
DistinctFileNames == \A i, j \in Pos : i # j => las_files[i].name # las_files[j].name
C9_DistinctNamesScheduleIndependent ==
    (pc = "done" /\ calls = 0 /\ ThroughPool /\ DistinctFileNames)
        => /\ results = SortByFilename(SubmissionOrderRecords)
           /\ aggregate = CalculateAggregates(SortByFilename(SubmissionOrderRecords))

\* C10 as stated: whenever process_files returns, failed validation aside,
\* the list is in non-decreasing filename order and the aggregate is
\* computed from that list.
C10_SortedUnlessValidationFailed ==
    (pc = "done" /\ ~(engine = "LAS" /\ \E i \in Pos : FailsValidation(kind[i])))
        => /\ IsSortedByFilename(results)
           /\ aggregate = CalculateAggregates(results)

\* C10 as amended: a call that returns after its collection loop, completed
\* or cancelled, returns the list in non-decreasing filename order with the
\* aggregate computed from that list; the early returns (failed validation,
\* laspy missing) hand back the error records in submission order.
C10_SortedAndAggregated ==
    /\ (pc = "done" /\ ThroughPool)
           => /\ IsSortedByFilename(results)
              /\ aggregate = CalculateAggregates(results)
    /\ (pc = "done" /\ FailedAtEntry)
           => /\ \A i \in Pos : results[i].filepath = las_files[i]
              /\ Len(results) = N
              /\ aggregate = CalculateAggregates(results)

\* three records collected out of filename order
C10_Witness ==
    /\ pc = "done" /\ ThroughPool /\ Len(results) = 3
    /\ las_files[1].name > las_files[3].name
    /\ status = <<"collected", "collected", "collected">>

\* The files whose extraction task fails: it catches an exception and
\* returns a record with the error set, or it raises.
FailedTasks == {i \in Pos : kind[i] = "err" \/ TaskRaises(kind[i])}

\* C15: the failure of a file's extraction is confined to that file: in an
\* uncancelled batch of N files that went to the pool, with k failing
\* tasks, the other N-k files are processed, the list holds N-k records
\* without error and k with error, and the aggregate reports total_files =
\* N, valid_files = N-k, failed_files = k.
C15_FailureConfined ==
    (pc = "done" /\ calls = 0 /\ ThroughPool)
        => /\ \A i \in Pos : Cardinality(RecordsOf(i)) = 1
           /\ \A i \in Pos : \A j \in RecordsOf(i) :
                  IF i \in FailedTasks
                  THEN results[j].error # "None"
                  ELSE results[j] = FileInfoValid(las_files[i])
           /\ Cardinality({j \in 1..Len(results) : results[j].error = "None"})
                  = N - Cardinality(FailedTasks)
           /\ aggregate.total_files = N
           /\ aggregate.valid_files = N - Cardinality(FailedTasks)
           /\ aggregate.failed_files = Cardinality(FailedTasks)

\* three files, the task of the first one submitted raises, the two others
\* are valid
C15_Witness ==
    /\ pc = "done" /\ calls = 0 /\ ThroughPool /\ N = 3
    /\ FailedTasks = {1}
    /\ kind[1] = "raise"
    /\ aggregate.valid_files = 2
    /\ aggregate.failed_files = 1

----------------------------------------------------------------------------
(* Termination of process_files (SpecLive) *)

\* C12: when every started task returns or raises, every call of
\* process_files returns its result list and aggregate, whether
\* cancel_processing is never called or is called at any point of the run.
C12_Terminates ==
    <>(pc = "done")

\* a cancelled run that returned while a cancelled future never ran
C12_Witness ==
    /\ pc = "done" /\ Cancelled /\ N = 3
    /\ aggregate.total_files = Len(results)
    /\ WithStatus("cancelled") # {}

----------------------------------------------------------------------------
(* Properties of the progress channel (SpecProgress) *)

\* C11: the main progress calls carry completed = 1, 2, 3, ..., each one
\* more than the one before, with total = N and completed <= N, one call
\* per collected record; a sub_progress call of a worker task never changes
\* the completed counter.
C11_ProgressCounts ==
    /\ [](/\ main_calls = completed
          /\ completed <= N
          /\ ThroughPool => main_calls = Len(results)
          /\ last_call.shape = "main" =>
                 /\ last_call.total = N
                 /\ last_call.completed \in 1..N
                 /\ last_call.completed = completed)
    /\ [][/\ main_calls' # main_calls =>
                 /\ main_calls' = main_calls + 1
                 /\ last_call' = MainCall(main_calls', N, results'[Len(results')].filename)
                 /\ completed' = completed + 1
                 /\ Len(results') = Len(results) + 1
          /\ (\E i \in Pos : stage'[i] > stage[i]) =>
                 /\ last_call'.shape = "sub"
                 /\ completed' = completed
                 /\ main_calls' = main_calls
                 /\ results' = results]_vars

\* two main calls made, then every sub_progress call of a running hull step
C11_Witness ==
    /\ pc = "wait" /\ N = 3 /\ completed = 2
    /\ last_call.shape = "sub"
    /\ \E i \in Pos : stage[i] = HullSteps

----------------------------------------------------------------------------
(* Properties of _calculate_aggregates (SpecAgg) *)

\* C4: every numeric sum of the aggregate is taken over the error-free
\* records only.
C4_SumsOverValidOnly ==
    aggOut.called =>
        LET valid == ValidResults(aggIn)
        IN  /\ aggOut.value.total_points = SumPoints(valid)
            /\ aggOut.value.total_file_size_mb = SumSize(valid)
            /\ aggOut.value.avg_point_density =
                   (IF valid = <<>> THEN <<0, 1>> ELSE <<SumDensity(valid), Len(valid)>>)

\* The list holds no error-free record: it is empty or every record of it
\* carries an error.
NoValidRecord(rs) == \A j \in 1..Len(rs) : rs[j].error # "None"

\* C13: _calculate_aggregates never raises; for the empty list and for a
\* list in which every record carries an error every numeric field of the
\* aggregate is zero, valid_files = 0 and failed_files = total_files =
\* length of the list.
C13_AllErrorIsAllZero ==
    aggOut.called =>
        /\ ~AggregateRaised(aggOut.value)
        /\ NoValidRecord(aggIn) =>
               /\ aggOut.value.total_points = 0
               /\ aggOut.value.avg_point_density = <<0, 1>>
               /\ aggOut.value.total_file_size_mb = 0
               /\ \A f \in DOMAIN ZeroBounds : aggOut.value[f] = 0
               /\ aggOut.value.valid_files = 0
               /\ aggOut.value.failed_files = Len(aggIn)
               /\ aggOut.value.total_files = Len(aggIn)

\* three error records that carry sizes and bounds
C13_Witness ==
    /\ aggOut.called /\ Len(aggIn) = 3
    /\ NoValidRecord(aggIn)
    /\ \E j \in 1..3 : aggIn[j].file_size_mb > 0 /\ aggIn[j].min_x < 0
    /\ aggOut.value.failed_files = 3

\* C14: each overall bound is the min (overall_min_*) or max
\* (overall_max_*) of that field over the error-free records only; the
\* bounds stored in records that carry an error never influence it; with no
\* error-free record all six bounds are 0.
C14_BoundsOverValidOnly ==
    aggOut.called =>
        LET V == {j \in 1..Len(aggIn) : aggIn[j].error = "None"}
            IsMin(v, S) == v \in S /\ \A x \in S : v <= x
            IsMax(v, S) == v \in S /\ \A x \in S : v >= x
        IN  IF V = {}
            THEN \A f \in DOMAIN ZeroBounds : aggOut.value[f] = 0
            ELSE /\ IsMin(aggOut.value.overall_min_x, {aggIn[j].min_x : j \in V})
                 /\ IsMax(aggOut.value.overall_max_x, {aggIn[j].max_x : j \in V})
                 /\ IsMin(aggOut.value.overall_min_y, {aggIn[j].min_y : j \in V})
                 /\ IsMax(aggOut.value.overall_max_y, {aggIn[j].max_y : j \in V})
                 /\ IsMin(aggOut.value.overall_min_z, {aggIn[j].min_z : j \in V})
                 /\ IsMax(aggOut.value.overall_max_z, {aggIn[j].max_z : j \in V})

\* an error record holds the smallest min_x and the largest max_y of the list
C14_Witness ==
    /\ aggOut.called /\ Len(aggIn) = 3
    /\ \E e \in 1..3 :
           /\ aggIn[e].error # "None"
           /\ \A j \in 1..3 : j # e => /\ aggIn[e].min_x < aggIn[j].min_x
                                       /\ aggIn[e].max_y > aggIn[j].max_y
    /\ \E j \in 1..3 : aggIn[j].error = "None"
    /\ aggOut.value.overall_min_x # 0

----------------------------------------------------------------------------
(* Properties of the CRS and unit resolution (SpecCrs) *)

\* The records the scan reads.
Scanned == {k \in 1..Len(crsIn.vlrs) : crsIn.vlrs[k].text}

\* C16: unit resolution returns us_survey_feet whenever at least one
\* metadata record contains the marker "US survey foot", whatever the other
\* records contain and whatever their order, in _extract_crs_info and in
\* the unit detection of _parse_lasinfo_output.
C16_UsSurveyFootWins ==
    \A out \in {crsOut.python, crsOut.lasinfo} :
        (out.called /\ \E k \in Scanned : crsIn.vlrs[k].us)
            => out.crs_units = "us_survey_feet"

\* What the scan does instead: the last record that holds any unit marker
\* decides, and inside that record the US survey foot marker wins.
C16_LastUnitRecordDecides ==
    \A out \in {crsOut.python, crsOut.lasinfo} :
        out.called =>
            \A k \in Scanned :
                (/\ crsIn.vlrs[k].us
                 /\ \A j \in Scanned : j > k =>
                        ~(crsIn.vlrs[j].us \/ crsIn.vlrs[j].foot \/ crsIn.vlrs[j].meter))
                    => out.crs_units = "us_survey_feet"

\* C17: in _extract_crs_info, whenever the records hold both a citation
\* marker that yields a label and a compound/WKT marker with a known datum
\* that yields a label, in one record or in two, in either order, the
\* label returned is the WKT one.
C17_WktLabelWins ==
    (/\ crsOut.python.called
     /\ \E k \in Scanned : crsIn.vlrs[k].citation = "match"
     /\ \E k \in Scanned : crsIn.vlrs[k].name = "compd")
        => crsOut.python.crs_info.src = "compd"

\* What the scan does instead: the WKT label is returned when the last
\* record that assigns a label is a WKT record without a citation marker.
C17_WktLabelWinsWhenLast ==
    crsOut.python.called =>
        \A k \in Scanned :
            (/\ crsIn.vlrs[k].name = "compd" /\ crsIn.vlrs[k].citation = "none"
             /\ \A j \in Scanned : j > k =>
                    /\ crsIn.vlrs[j].citation # "match"
                    /\ crsIn.vlrs[j].citation = "none" => crsIn.vlrs[j].name = "none")
                => crsOut.python.crs_info = Label("compd", k)

\* No record yields a label or a unit.
NoMetadata ==
    \A k \in Scanned :
        /\ crsIn.vlrs[k].citation # "match"
        /\ crsIn.vlrs[k].citation = "none" => crsIn.vlrs[k].name = "none"
        /\ ~(crsIn.vlrs[k].us \/ crsIn.vlrs[k].foot \/ crsIn.vlrs[k].meter)

\* The header bounds are not of the magnitude of either criterion (the
\* state-plane one asks for more than the projected-meter one).
NeitherCriterion ==
    ~(/\ crsIn.header.min_x > 100000 /\ crsIn.header.max_x > 100000
      /\ crsIn.header.min_y > 100000 /\ crsIn.header.max_y > 100000)

\* C18: with no label and no unit from the metadata and header bounds that
\* meet neither criterion, _extract_crs_info returns an empty label and
\* the unit "unknown".
C18_UnknownWhenInconclusive ==
    (crsOut.python.called /\ NoMetadata /\ NeitherCriterion)
        => /\ crsOut.python.crs_info = NoLabel
           /\ crsOut.python.crs_units = "unknown"

\* What it returns instead: the empty label with the unit "meters"; no
\* input at all makes it return "unknown".
C18_MetersWhenInconclusive ==
    crsOut.python.called =>
        /\ crsOut.python.crs_units # "unknown"
        /\ (NoMetadata /\ NeitherCriterion) =>
               /\ crsOut.python.crs_info = NoLabel
               /\ crsOut.python.crs_units = "meters"

----------------------------------------------------------------------------
(* Properties of the thread planners (SpecPlan) *)

InCeiling(out) ==
    out.called => /\ ~out.raised
                  /\ 1 <= out.value
                  /\ out.value <= (IF planIn.use_convex_hull THEN 4 ELSE 12)

\* C2: both planners return a worker count w with 1 <= w <= ceiling, the
\* ceiling being 4 with the convex hull flag and 12 without.
C2_WithinCeiling ==
    /\ InCeiling(planOut.batch)
    /\ InCeiling(planOut.smart)

\* C2 apart from the zero average size: calculate_optimal_threads is always
\* within the ceiling, calculate_optimal_threads_smart is whenever the
\* sizes of the listed files sum to more than zero or the list is empty.
C2_WithinCeilingUnlessZeroSize ==
    /\ InCeiling(planOut.batch)
    /\ (planIn.file_paths = <<>> \/ TotalSizeGb(planIn.file_paths) > 0)
           => InCeiling(planOut.smart)

\* C19: the thread planners never raise: for every input, an empty list, a
\* list of files of size 0 or that do not exist and available RAM of 0
\* included, both return a worker count; the count is 1 for an empty list
\* and when the available RAM is 0 while the batch needs some.
C19_PlannersNeverRaise ==
    /\ planOut.batch.called =>
           /\ ~planOut.batch.raised
           /\ planOut.batch.value >= 1
           /\ (planIn.available_ram_gb = 0 /\ planIn.total_ram_needed_gb > 0)
                  => planOut.batch.value = 1
    /\ planOut.smart.called =>
           /\ ~planOut.smart.raised
           /\ planOut.smart.value >= 1
           /\ planIn.file_paths = <<>> => planOut.smart.value = 1
           /\ planIn.available_ram_gb = 0 => planOut.smart.value = 1

\* C19 apart from the zero average size: calculate_optimal_threads never
\* raises; calculate_optimal_threads_smart raises exactly when the list is
\* not empty and the sizes of its files that exist sum to zero.
C19_RaisesOnlyOnZeroSize ==
    /\ planOut.batch.called => ~planOut.batch.raised
    /\ planOut.smart.called =>
           (planOut.smart.raised <=>
                (planIn.file_paths # <<>> /\ TotalSizeGb(planIn.file_paths) = 0))
    /\ (planOut.smart.called /\ ~planOut.smart.raised /\ planIn.available_ram_gb = 0)
           => planOut.smart.value = 1

\* C20: for a non-empty batch with positive average file size
\* calculate_optimal_threads_smart returns
\* max(1, min(ceiling, floor(0.90 * available_ram / (average_size * 1.5)))):
\* with average_size = total / len the quotient is
\* 9 * available * len / (15 * total).
C20_UsesSizeEstimatorFactor ==
    (/\ planOut.smart.called
     /\ planIn.file_paths # <<>>
     /\ TotalSizeGb(planIn.file_paths) > 0)
        => /\ ~planOut.smart.raised
           /\ planOut.smart.value =
                  Max2(1, Min2(IF planIn.use_convex_hull THEN 4 ELSE 12,
                               (9 * planIn.available_ram_gb * Len(planIn.file_paths))
                                   \div (15 * TotalSizeGb(planIn.file_paths))))

----------------------------------------------------------------------------
(* Properties of _polygon_area (SpecPoly) *)

\* The sum over i of x_i*y_{i+1} - x_{i+1}*y_i, indices modulo n, taken
\* from the last term down.
RECURSIVE CrossSum(_, _)
CrossSum(v, k) ==
    IF k = 0 THEN 0
    ELSE LET j == (k % Len(v)) + 1
         IN  (v[k][1] * v[j][2] - v[j][1] * v[k][2]) + CrossSum(v, k - 1)

Rotated(v, k) == [i \in 1..Len(v) |-> v[((i - 1 + k) % Len(v)) + 1]]
Reversed(v) == [i \in 1..Len(v) |-> v[Len(v) + 1 - i]]
Rectangle(x0, y0, x1, y1) == <<<<x0, y0>>, <<x1, y0>>, <<x1, y1>>, <<x0, y1>>>>

\* C21: _polygon_area returns half the absolute value of the shoelace sum
\* for n >= 3 vertices and 0 for fewer; the value is never negative, is the
\* same for every cyclic rotation and for the reversed order, and is w*h for
\* the corners of an axis-aligned w-by-h rectangle.
C21_ShoelaceArea ==
    polyOut.returned =>
        LET v == polyIn
            n == Len(polyIn)
            a == polyOut.area
        IN  /\ n < 3 => a = Half(0)
            /\ n >= 3 => a = Half(Abs(CrossSum(v, n)))
            /\ a[1] >= 0
            /\ \A k \in 0..(n - 1) : PolygonArea(Rotated(v, k)) = a
            /\ PolygonArea(Reversed(v)) = a
            /\ \A x0, x1, y0, y1 \in Coords :
                   (x0 < x1 /\ y0 < y1 /\ v = Rectangle(x0, y0, x1, y1))
                       => a = Half(2 * (x1 - x0) * (y1 - y0))

\* The 100-by-100 square measured: 10000.
C21_Witness ==
    /\ polyOut.returned
    /\ polyIn = Rectangle(0, 0, 100, 100)
    /\ polyOut.area = Half(2 * 10000)

----------------------------------------------------------------------------
(* Properties of _process_single_file and the footprint step (SpecTask) *)

\* The call entered the footprint step.
EntersHull(in) == in.use_detailed_acreage /\ in.fault \notin {"stat", "extract"}

\* The footprint cannot be computed: too few points, a flat point set, or a
\* failure of the hull computation or of a point read.
CannotCompute(in) ==
    \/ Cardinality(in.cloud) < 3
    \/ ConvexHull(in.cloud).raised
    \/ in.fault \in {"points", "hull_read", "hull_fail"}

\* C22: when the footprint cannot be computed the footprint step changes
\* nothing in the record: acreage_detailed stays 0, point_density and every
\* other field keep the value they had before the step, error stays unset
\* and the task returns the record.
C22_FailedHullChangesNothing ==
    (taskOut.returned /\ EntersHull(taskIn) /\ CannotCompute(taskIn)) =>
        /\ ~taskOut.raised
        /\ taskOut.file_info = BeforeHull(taskIn)
        /\ taskOut.file_info.acreage_detailed = ZeroAcres
        /\ taskOut.file_info.error = "None"

\* PythonLASProcessor on three points of one diagonal: the hull computation
\* fails and the bounding-box density computed before the step is kept.
C22_Witness ==
    /\ taskOut.returned
    /\ taskIn.engine = "Python"
    /\ taskIn.use_detailed_acreage
    /\ taskIn.fault = "none"
    /\ taskIn.cloud = {<<0, 0>>, <<1, 1>>, <<2, 2>>}
    /\ Positive(taskOut.file_info.point_density)
    /\ taskOut.file_info.point_density = CalculatePointDensity(BeforeHull(taskIn))

\* C23: in every record process_files appends for a task, a set error and a
\* computed footprint exclude each other: error set implies acreage_detailed
\* is 0.
C23_ErrorHasNoFootprint ==
    taskOut.returned =>
        (Appended(taskOut).error # "None"
            => Appended(taskOut).acreage_detailed = ZeroAcres)

\* Geometry mode on a file whose points span a triangle, the extraction
\* stage failing: the record carries the error and no footprint.
C23_Witness ==
    /\ taskOut.returned
    /\ taskIn.use_detailed_acreage
    /\ taskIn.fault = "extract"
    /\ ~ConvexHull(taskIn.cloud).raised
    /\ Appended(taskOut).error = "caught"
    /\ Appended(taskOut).acreage_detailed = ZeroAcres

----------------------------------------------------------------------------
(* Properties of the worker pool (SpecLive) *)

\* C24: throughout a batch the number of tasks executing at the same time
\* never exceeds the worker count the engine was constructed with, and that
\* worker count does not change between the submission of the first task
\* and the return of process_files.
C24_WorkersBounded ==
    /\ [](Cardinality(WithStatus("running")) <= max_workers)
    /\ [][max_workers' = max_workers]_vars

\* two workers, both busy, the third file waiting in the queue
C24_Witness ==
    /\ max_workers = 2
    /\ Cardinality(WithStatus("running")) = 2
    /\ WithStatus("pending") # {}
    /\ pc = "wait"

----------------------------------------------------------------------------
(* Properties of process_files with a raising callback (SpecCallback) *)

\* C25: in the cancellation path of the application (the callback of
\* run_scan calls cancel_processing and raises out of
\* LASProcessor.process_files) no task that had not begun executing when the
\* callback raised is executed afterwards.
C25_PendingAbandonedAfterRaise ==
    (engine = "LAS" /\ callback = "app" /\ unwound.taken) =>
        \A i \in unwound.pending : status[i] \in {"pending", "cancelled"}

\* What the code does instead: process_files raises only after every task
\* that was queued when the callback raised has been executed.
C25_PendingRunBeforeRaise ==
    (engine = "LAS" /\ callback = "app" /\ pc = "raised") =>
        /\ unwound.taken
        /\ unwound.by = "interrupt"
        /\ cancel_event
        /\ \A i \in unwound.pending : status[i] = "finished"

\* three files on one worker: the callback raised at the first completion,
\* the two queued tasks were executed, then process_files raised
C25_PendingRunWitness ==
    /\ engine = "LAS" /\ callback = "app" /\ pc = "raised"
    /\ N = 3 /\ max_workers = 1
    /\ Cardinality(unwound.pending) = 2
    /\ Len(results) = 1

----------------------------------------------------------------------------
(* Properties of the density stage (SpecTask) *)

NonDegenerate(file_info) ==
    /\ file_info.min_x # file_info.max_x
    /\ file_info.min_y # file_info.max_y

\* C26: every error-free record with point_count > 0 and non-degenerate X
\* and Y bounds has point_density > 0 whether or not geometry mode is on:
\* the bounding-box density when the hull was not computed, the hull
\* density when it was.
C26_DensityPositive ==
    (/\ taskOut.returned
     /\ ~taskOut.raised
     /\ taskOut.file_info.error = "None"
     /\ taskOut.file_info.point_count > 0
     /\ NonDegenerate(taskOut.file_info)) =>
        LET file_info == taskOut.file_info IN
        /\ Positive(file_info.point_density)
        /\ file_info.acreage_detailed = ZeroAcres
               => file_info.point_density = CalculatePointDensity(file_info)
        /\ file_info.acreage_detailed # ZeroAcres
               => file_info.point_density =
                      Density(file_info.point_count, file_info.acreage_detailed.area2,
                              file_info.crs_units)

\* What holds of both engines: the density is positive once the hull was
\* computed, and PythonLASProcessor has the bounding-box density otherwise;
\* LASProcessor leaves point_density at 0.0 when the hull was not computed.
C26_DensityPositiveWithHullOrPython ==
    (/\ taskOut.returned
     /\ ~taskOut.raised
     /\ taskOut.file_info.error = "None"
     /\ taskOut.file_info.point_count > 0
     /\ NonDegenerate(taskOut.file_info)) =>
        LET file_info == taskOut.file_info IN
        /\ file_info.acreage_detailed # ZeroAcres =>
               /\ Positive(file_info.point_density)
               /\ file_info.point_density =
                      Density(file_info.point_count, file_info.acreage_detailed.area2,
                              file_info.crs_units)
        /\ (file_info.acreage_detailed = ZeroAcres /\ taskIn.engine = "Python") =>
               /\ Positive(file_info.point_density)
               /\ file_info.point_density = CalculatePointDensity(file_info)
        /\ (file_info.acreage_detailed = ZeroAcres /\ taskIn.engine = "LAS") =>
               file_info.point_density = ZeroDensity

----------------------------------------------------------------------------
(* Properties of the loop of PythonLASProcessor (SpecCallback) *)

\* C27: in PythonLASProcessor.process_files each submitted file contributes
\* at most one record to the result list and advances the completed counter
\* at most once, even when the callback raises an Exception while notified
\* of the successful completion of that file.
C27_OneRecordOneCount ==
    engine = "Python" =>
        \A i \in Pos : Cardinality(RecordsOf(i)) <= 1 /\ counted[i] <= 1

\* What the code does: a file contributes two records and two counts
\* exactly when the callback raised an Exception on its successful
\* completion, and never more than two; the loop of LASProcessor keeps to
\* one.
C27_TwiceOnlyOnCallbackException ==
    \A i \in Pos :
        /\ Cardinality(RecordsOf(i)) = counted[i]
        /\ counted[i] <= 2
        /\ counted[i] = 2 =>
               /\ engine = "Python"
               /\ callback = "faulty"
               /\ ~TaskRaises(kind[i])
               /\ \E j, k \in RecordsOf(i) :
                      results[j].error = "None" /\ results[k].error = "raised"

\* one file, valid, the callback raised once: two records, completed = 2,
\* and process_files returned them
C27_TwiceWitness ==
    /\ engine = "Python" /\ N = 1 /\ pc = "done"
    /\ Len(results) = 2 /\ completed = 2
    /\ aggregate.total_files = 2

----------------------------------------------------------------------------
(* Properties of repeated process_files calls (SpecBatches) *)

\* C28: each call of process_files, on LASProcessor and PythonLASProcessor
\* alike, starts with the cancellation flag cleared: a cancel_processing
\* call made before the call began, one left over from an earlier batch
\* included, does not stop the new batch early, and a batch during which
\* cancel_processing was not called returns one record per file.
C28_StartsCleared ==
    /\ (pc \notin {"idle", "done"} /\ ~cancelled_in_run) => ~cancel_event
    /\ (pc = "done" /\ ~cancelled_in_run) =>
           \A i \in Pos : Cardinality(RecordsOf(i)) = 1

\* What holds: LASProcessor clears the flag at entry; PythonLASProcessor
\* never clears it, so only its calls made with the flag still clear are
\* complete.
C28_LasStartsCleared ==
    /\ (engine = "LAS" /\ pc \notin {"idle", "done"} /\ ~cancelled_in_run) => ~cancel_event
    /\ (pc = "done" /\ ~cancel_event) => \A i \in Pos : Cardinality(RecordsOf(i)) = 1
    /\ (engine = "LAS" /\ pc = "done" /\ ~cancelled_in_run) =>
           \A i \in Pos : Cardinality(RecordsOf(i)) = 1

\* the second call on a LASProcessor whose flag was set during the first:
\* not cancelled itself, it returned the three records
C28_LasWitness ==
    /\ engine = "LAS" /\ batch = 2 /\ pc = "done" /\ N = 3
    /\ ~cancelled_in_run /\ ~cancel_event
    /\ Len(results) = 3

\* the second call on a PythonLASProcessor whose flag was set before: not
\* cancelled itself, it returned no record for three files
C28_PythonStaleWitness ==
    /\ engine = "Python" /\ batch = 2 /\ pc = "done" /\ N = 3
    /\ ~cancelled_in_run /\ cancel_event
    /\ Len(results) = 0

----------------------------------------------------------------------------
(* Properties of the coordinate fallback (SpecCrs) *)

FtUsLabels == {FallbackLabel("NAD83(2011) / Maine West (ftUS)"),
               FallbackLabel("NAD83 / US State Plane (ftUS)")}
UtmLabel == FallbackLabel("WGS84 / UTM Zone (m)")

\* Both spans of the header exceed the 1000 units the unit fallback asks for.
WideSpans ==
    /\ Abs(crsIn.header.max_x - crsIn.header.min_x) > 1000
    /\ Abs(crsIn.header.max_y - crsIn.header.min_y) > 1000

\* C29: the (label, unit) pair _extract_crs_info returns is self-consistent:
\* with a coordinate-fallback label that names US survey feet the unit is
\* us_survey_feet, with the fallback label "WGS84 / UTM Zone (m)" the unit
\* is meters, for every combination of metadata records and header bounds.
C29_LabelUnitConsistent ==
    crsOut.python.called =>
        /\ crsOut.python.crs_info \in FtUsLabels
               => crsOut.python.crs_units = "us_survey_feet"
        /\ crsOut.python.crs_info = UtmLabel
               => crsOut.python.crs_units = "meters"

\* What holds: the pair is consistent when the metadata gave neither a
\* label nor a unit and both spans of the header exceed 1000; the two
\* fallbacks are otherwise independent of each other.
C29_ConsistentWhenBothFallBack ==
    (crsOut.python.called /\ NoMetadata /\ WideSpans) =>
        /\ crsOut.python.crs_info \in FtUsLabels
               => crsOut.python.crs_units = "us_survey_feet"
        /\ crsOut.python.crs_info = UtmLabel
               => crsOut.python.crs_units = "meters"

\* no metadata, a state-plane header 100000 by 10000 wide: both fallbacks
\* say US survey feet
C29_BothFallBackWitness ==
    /\ crsOut.python.called
    /\ crsIn.vlrs = <<>>
    /\ crsIn.header.min_x = 2000000 /\ crsIn.header.max_x = 2100000
    /\ crsOut.python.crs_info = FallbackLabel("NAD83 / US State Plane (ftUS)")
    /\ crsOut.python.crs_units = "us_survey_feet"

----------------------------------------------------------------------------
(* Properties of the validation at entry (Spec) *)

\* C30: LASProcessor.process_files fails the whole batch at validation only
\* when some file exceeds the 20 GB cap; a file whose size cannot be read
\* gives an error for that file alone, every other file of the batch is
\* still submitted and processed.
C30_OnlyOversizeFailsBatch ==
    (engine = "LAS" /\ pc = "done" /\ \A i \in Pos : kind[i] # "over") =>
        /\ \A i \in Pos : status[i] # "new"
        /\ \A j \in 1..Len(results) :
               results[j].error # "None"
                   => \E i \in Pos : /\ results[j].filepath = las_files[i]
                                     /\ kind[i] # "ok"

\* What the code does: a file whose size cannot be read fails the batch just
\* as an oversized one does; no task is submitted and every file gets the
\* record that names the 20 GB limit.
C30_UnreadableFailsBatch ==
    (engine = "LAS" /\ pc = "done" /\ \E i \in Pos : kind[i] = "missing") =>
        /\ \A i \in Pos : status[i] = "new"
        /\ results = ErrorResults("File exceeds 20GB limit")
        /\ aggregate.valid_files = 0

\* two readable files within the cap and one whose size cannot be read,
\* none oversized: three records that name the 20 GB limit
C30_UnreadableWitness ==
    /\ engine = "LAS" /\ pc = "done" /\ N = 3
    /\ \E i \in Pos : kind[i] = "missing"
    /\ Cardinality({i \in Pos : kind[i] = "ok"}) = 2
    /\ Len(results) = 3
    /\ \A j \in 1..3 : results[j].error = "File exceeds 20GB limit"

====
